---- MODULE Spec2Model ----
(***************************************************************************)
(* Bit stream layer, header decoder and string table of the EXI codec.     *)
(*                                                                         *)
(* Writer: writeNextBit / writeNBits of the vendored EXIP stream writer    *)
(* (vendored/exip/src/streamIO/src/streamWrite.c) over an EXIStream whose  *)
(* state is the byte buffer, the byte index (context.bufferIndx), the bit  *)
(* pointer (context.bitPointer) and the optional flush sink               *)
(* (buffer.ioStrm.readWriteToStream).                                      *)
(*                                                                         *)
(* Reader: the InBitStream exercised by the driver's checks.               *)
(*                                                                         *)
(* Header decoder: ExiDecoder::decodeHeader filling an ExiHeader           *)
(* (exi/Decode/BodyDecoder.hpp, exi/Basic/ExiHeader.hpp).                  *)
(*                                                                         *)
(* String table: decode::StringTable with its URI, prefix, local-name,     *)
(* local-value and global-value partitions (exi/Decode/BodyDecoder.hpp).   *)
(***************************************************************************)
EXTENDS Integers, Sequences, FiniteSets, TLC

(***************************************************************************)
(* Bounds of the model.                                                    *)
(***************************************************************************)
\* largest buffer length (bytes) a stream is built with
MaxBufLen == 3
\* largest bit count passed to writeNBits by the general writer machine
MaxN == 16
\* largest bit count whose every value is written and read back
MaxV == 10
\* number of writer calls in one behaviour
MaxOps == 3
\* largest bit count of one reader call
MaxRead == 16
\* largest number of option elements in one options document
MaxOptElts == 2
\* number of string table calls after setup
MaxTblOps == 3
\* the finite ValuePartitionCapacity tables are set up with
MaxCapacity == 2
\* events delivered to the handler before the decoder reads no further
MaxEvents == 8
\* local values of the local names bytes() is called on
MaxLocalValues == 128
\* widths n of the integer types ibit<n> and ubit<n> casts are made to
MaxBits == 8
\* raw_fd_ostream objects the process makes
NStreams == 2
\* the largest file descriptor
MaxFD == 4
\* the most calls of SafelyCloseFileDescriptor one stream makes
MaxCloses == 2
\* getStat calls and file system changes in one run
MaxStatOps == 3
\* bytes written to one raw_ostream
MaxBytes == 10
\* the largest buffer a raw_ostream prefers, and the longest single write
MaxChunk == 3
\* threads that call ParseXMLFromMemoryBuffer
NThreads == 2

VARIABLES
  buf,         \* strm->buffer.buf : [0..bufLen-1 -> 0..255]
  bufLen,      \* strm->buffer.bufLen
  bufferIndx,  \* strm->context.bufferIndx
  bitPointer,  \* strm->context.bitPointer
  hasSink,     \* strm->buffer.ioStrm.readWriteToStream != NULL
  sink,        \* bytes the flush sink has accepted, in order
  oob,         \* a byte outside buf[0 .. bufLen-1] has been stored to
  last,        \* the last writer call: arguments, result, state before it
  ops,         \* number of writer calls made
  rfull,       \* reader: the complete input, a sequence of bytes
  rdata,       \* reader: the bytes supplied to the InBitStream so far
  rpos,        \* reader: bitPos()
  rlast,       \* reader: the last call, its arguments and result
  tstep,       \* driver: number of InBitStream checks of main passed, -1 off script
  pc,          \* where a write-then-read round trip stands
  Header,      \* ExiDecoder::Header
  Flags,       \* ExiDecoder::Flags
  hlast,       \* the last decodeHeader call: its input and result
  tbl,         \* decode::StringTable: its partitions, counters and flags
  sopts,       \* the ExiOptions the string table was set up with
  slast,       \* the last string table call: arguments, result, table before it
  sops,        \* number of string table calls made
  vtab,        \* string value codec: the local and global value partitions
  vlast,       \* string value codec: the last value encoded and decoded
  builder,     \* XMLBuilder: doc, node, attr
  gstack,      \* body decoder: the stack of active grammars, the current one last
  dpos,        \* body decoder: productions read from the stream
  dres,        \* body decoder: "Ok" while parsing, then the code returned
  dpend,       \* body decoder: the value of the attribute being delivered
  events,      \* the events delivered to the handler, each with the code returned
  fcall,       \* the last call of a function of its arguments alone, and its result
  fdstream,    \* raw_fd_ostream: the streams of the process and the build
  statCache,   \* MemorizeStatCalls: StatCalls, the file system, the last call
  fills,       \* writer: the bytes of every buffer the bit writes have filled
  ros,         \* raw_ostream: mode, buffer, bytes handed to write_impl, bytes written
  xml          \* xml::use_exceptions_anyway and the threads parsing XML

wvars == <<buf, bufLen, bufferIndx, bitPointer, hasSink, sink, oob, last, ops>>

rvars == <<rfull, rdata, rpos, rlast, tstep>>

hvars == <<Header, Flags, hlast>>

svars == <<tbl, sopts, slast, sops>>

vvars == <<vtab, vlast>>

evars == <<builder, gstack, dpos, dres, dpend, events>>

lvars == <<fdstream, statCache, fills, ros, xml>>

cvars == <<vvars, evars, fcall, lvars>>

vars == <<wvars, rvars, pc, hvars, svars, cvars>>

(***************************************************************************)
(* Arithmetic on unsigned bytes, as the C operators compute it.            *)
(***************************************************************************)
RECURSIVE Pow2(_)
Pow2(n) == IF n = 0 THEN 1 ELSE 2 * Pow2(n - 1)

\* bit i (0 = least significant) of x
BitOf(x, i) == (x \div Pow2(i)) % 2

\* BIT_MASK[k] = 2^k - 1, k in 0..8
BIT_MASK(k) == Pow2(k) - 1

\* REVERSE_BIT_POSITION(p) = 7 - p
REVERSE_BIT_POSITION(p) == 7 - p

\* a | b on unsigned char
ByteOr(a, b) ==
  LET bit(i) == IF BitOf(a, i) = 1 \/ BitOf(b, i) = 1 THEN Pow2(i) ELSE 0
  IN  bit(0) + bit(1) + bit(2) + bit(3) + bit(4) + bit(5) + bit(6) + bit(7)

\* a & b on unsigned char
ByteAnd(a, b) ==
  LET bit(i) == IF BitOf(a, i) = 1 /\ BitOf(b, i) = 1 THEN Pow2(i) ELSE 0
  IN  bit(0) + bit(1) + bit(2) + bit(3) + bit(4) + bit(5) + bit(6) + bit(7)

\* ~a on unsigned char
ByteNot(a) == 255 - a

(***************************************************************************)
(* The stream position and one store into the buffer.  A stream value st   *)
(* is [buf, idx, bp, oob].                                                 *)
(***************************************************************************)
Strm == [buf |-> buf, idx |-> bufferIndx, bp |-> bitPointer, oob |-> oob]

\* moveBitPointer(strm, bitPositions)
moveBitPointer(st, bitPositions) ==
  [st EXCEPT !.idx = st.idx + ((st.bp + bitPositions) \div 8),
             !.bp  = (st.bp + bitPositions) % 8]

\* strm->buffer.buf[i] read: a byte outside the buffer holds whatever is there
Load(st, i, other) == IF i \in DOMAIN st.buf THEN st.buf[i] ELSE other

\* strm->buffer.buf[i] = b: a store outside the buffer lands in foreign memory
Store(st, i, b) ==
  IF i \in DOMAIN st.buf
  THEN [st EXCEPT !.buf = [st.buf EXCEPT ![i] = b]]
  ELSE [st EXCEPT !.oob = TRUE]

(***************************************************************************)
(* streamWrite.c, writeNextBit lines 37-42: set or clear the bit under the *)
(* bit pointer, then advance by one.                                       *)
(***************************************************************************)
PutBit(st, bit_val) ==
  LET cur == Load(st, st.idx, 0)
      one == Pow2(REVERSE_BIT_POSITION(st.bp))
      nxt == IF bit_val = 0 THEN ByteAnd(cur, ByteNot(one)) ELSE ByteOr(cur, one)
  IN  moveBitPointer(Store(st, st.idx, nxt), 1)

(***************************************************************************)
(* streamWrite.c, writeNBits.                                              *)
(***************************************************************************)
\* line 52
NumBytesToBeWritten(bp, nbits) ==
  (nbits \div 8) + (IF 8 - bp < nbits % 8 THEN 1 ELSE 0)

\* lines 65-68
BitsInByte(bp, nbits, numBitsWrite) ==
  IF nbits - numBitsWrite <= 8 - bp THEN nbits - numBitsWrite ELSE 8 - bp

\* line 70 taking the chunks from the low end of bits_val
ChunkOfLow(bits_val, nbits, numBitsWrite, bits_in_byte) ==
  (bits_val \div Pow2(numBitsWrite)) % (BIT_MASK(bits_in_byte) + 1)

\* line 70: (bits_val >> (nbits - numBitsWrite - bits_in_byte)) & BIT_MASK[bits_in_byte]
ChunkOf(bits_val, nbits, numBitsWrite, bits_in_byte) ==
  (bits_val \div Pow2(nbits - numBitsWrite - bits_in_byte)) % (BIT_MASK(bits_in_byte) + 1)

\* line 74 clearing the whole byte
ClearByte(byte, bp) == 0

\* line 74: buf[bufIndx] &= ~BIT_MASK[8 - bitPointer]
ClearUnused(byte, bp) == ByteAnd(byte, ByteNot(BIT_MASK(8 - bp)))

\* lines 63-79 without line 71 (the chunk is not moved under the bit pointer)
RECURSIVE WriteLoopNoShift(_, _, _, _)
WriteLoopNoShift(st, nbits, bits_val, numBitsWrite) ==
  IF numBitsWrite < nbits
  THEN LET bits_in_byte == BitsInByte(st.bp, nbits, numBitsWrite)
           tmp  == ChunkOf(bits_val, nbits, numBitsWrite, bits_in_byte)
           st1  == Store(st, st.idx, ClearUnused(Load(st, st.idx, 0), st.bp))
           st2  == Store(st1, st.idx, ByteOr(Load(st1, st.idx, 0), tmp))
       IN  WriteLoopNoShift(moveBitPointer(st2, bits_in_byte), nbits, bits_val,
                            numBitsWrite + bits_in_byte)
  ELSE st

\* lines 63-79
RECURSIVE WriteLoop(_, _, _, _)
WriteLoop(st, nbits, bits_val, numBitsWrite) ==
  IF numBitsWrite < nbits
  THEN LET bits_in_byte == BitsInByte(st.bp, nbits, numBitsWrite)
           tmp  == (ChunkOf(bits_val, nbits, numBitsWrite, bits_in_byte)
                      * Pow2(8 - st.bp - bits_in_byte)) % 256
           st1  == Store(st, st.idx, ClearUnused(Load(st, st.idx, 0), st.bp))
           st2  == Store(st1, st.idx, ByteOr(Load(st1, st.idx, 0), tmp))
       IN  WriteLoop(moveBitPointer(st2, bits_in_byte), nbits, bits_val,
                     numBitsWrite + bits_in_byte)
  ELSE st

(***************************************************************************)
(* The flush sink: readWriteToStream(buf, len, stream) accepts the first k *)
(* of the len bytes offered, 0 <= k <= len.  A byte offered from outside   *)
(* the buffer is foreign memory (g).                                       *)
(***************************************************************************)
\* byte values of memory the writer has not stored to
MemBytes == {0, 165, 255}

\* lines 31-32 failing only when the sink took nothing
SinkTookNone(numBytesWritten, len) == numBytesWritten = 0 /\ len > 0

\* lines 31-32: the sink took fewer bytes than it was offered
SinkShort(numBytesWritten, len) == numBytesWritten < len

Offered(st, k, g) == [i \in 1..k |-> Load(st, i - 1, g)]

\* what a call leaves in `last`
Call(op, n, v, err, start, flushed) ==
  [op |-> op, n |-> n, v |-> v, err |-> err, flushed |-> flushed,
   okSoFar |-> last.okSoFar /\ err = "EXIP_OK",
   pre   |-> [buf |-> buf, idx |-> bufferIndx, bp |-> bitPointer, sink |-> sink],
   start |-> [buf |-> start.buf, idx |-> start.idx, bp |-> start.bp]]

\* the stream fields take the values of st
Becomes(st) ==
  /\ buf' = st.buf
  /\ bufferIndx' = st.idx
  /\ bitPointer' = st.bp
  /\ oob' = st.oob

(***************************************************************************)
(* errorCode writeNextBit(EXIStream* strm, boolean bit_val)                *)
(***************************************************************************)
writeNextBit(bit_val) ==
  /\ ops < MaxOps
  /\ ops' = ops + 1
  /\ UNCHANGED <<bufLen, hasSink>>
  /\ IF bufLen <= bufferIndx
     THEN IF ~hasSink
          THEN /\ last' = Call("writeNextBit", 1, bit_val, "EXIP_BUFFER_END_REACHED", Strm, FALSE)
               /\ UNCHANGED <<buf, bufferIndx, bitPointer, oob, sink>>
          ELSE \E k \in 0..bufLen :
                 /\ sink' = sink \o Offered(Strm, k, 0)
                 /\ IF SinkShort(k, bufLen)
                    THEN /\ last' = Call("writeNextBit", 1, bit_val, "EXIP_BUFFER_END_REACHED", Strm, FALSE)
                         /\ UNCHANGED <<buf, bufferIndx, bitPointer, oob>>
                    ELSE LET st == [Strm EXCEPT !.idx = 0, !.bp = 0]
                         IN  /\ last' = Call("writeNextBit", 1, bit_val, "EXIP_OK", st, TRUE)
                             /\ Becomes(PutBit(st, bit_val))
     ELSE /\ last' = Call("writeNextBit", 1, bit_val, "EXIP_OK", Strm, FALSE)
          /\ Becomes(PutBit(Strm, bit_val))
          /\ UNCHANGED sink

(***************************************************************************)
(* errorCode writeEncodedEXIChunk(EXIStream* strm), called at line 60:     *)
(* hand the bufferIndx complete bytes to the sink, move the byte under     *)
(* the byte index to buf[0] and restart at byte 0.                         *)
(***************************************************************************)
ChunkFlushed(st, g) == [Store(st, 0, Load(st, st.idx, g)) EXCEPT !.idx = 0]

(***************************************************************************)
(* errorCode writeNBits(EXIStream* strm, unsigned char nbits,              *)
(*                      unsigned long bits_val)                            *)
(***************************************************************************)
writeNBits(nbits, bits_val) ==
  /\ ops < MaxOps
  /\ ops' = ops + 1
  /\ UNCHANGED <<bufLen, hasSink>>
  /\ IF bufLen <= bufferIndx + NumBytesToBeWritten(bitPointer, nbits)
     THEN IF ~hasSink
          THEN /\ last' = Call("writeNBits", nbits, bits_val, "EXIP_BUFFER_END_REACHED", Strm, FALSE)
               /\ UNCHANGED <<buf, bufferIndx, bitPointer, oob, sink>>
          ELSE \E k \in 0..bufferIndx, g \in MemBytes :
                 /\ sink' = sink \o Offered(Strm, k, g)
                 /\ IF SinkShort(k, bufferIndx)
                    THEN /\ last' = Call("writeNBits", nbits, bits_val, "EXIP_BUFFER_END_REACHED", Strm, FALSE)
                         /\ UNCHANGED <<buf, bufferIndx, bitPointer, oob>>
                    ELSE LET st == ChunkFlushed(Strm, g)
                         IN  /\ last' = Call("writeNBits", nbits, bits_val, "EXIP_OK", st, TRUE)
                             /\ Becomes(WriteLoop(st, nbits, bits_val, 0))
     ELSE /\ last' = Call("writeNBits", nbits, bits_val, "EXIP_OK", Strm, FALSE)
          /\ Becomes(WriteLoop(Strm, nbits, bits_val, 0))
          /\ UNCHANGED sink

(***************************************************************************)
(* A stream as the caller sets it up: a buffer of bufLen >= 1 bytes with   *)
(* whatever content it was allocated with, position 0:0, with or without   *)
(* a flush sink.                                                           *)
(***************************************************************************)
NoCall ==
  [op |-> "none", n |-> 0, v |-> 0, err |-> "EXIP_OK", flushed |-> FALSE,
   okSoFar |-> TRUE,
   pre   |-> [buf |-> buf, idx |-> 0, bp |-> 0, sink |-> <<>>],
   start |-> [buf |-> buf, idx |-> 0, bp |-> 0]]

InitStream ==
  /\ bufLen \in 1..MaxBufLen
  /\ \E f \in MemBytes : buf = [i \in 0..(bufLen - 1) |-> f]
  /\ bufferIndx = 0
  /\ bitPointer = 0
  /\ hasSink \in BOOLEAN
  /\ sink = <<>>
  /\ oob = FALSE
  /\ last = NoCall
  /\ ops = 0

(***************************************************************************)
(* InBitStream: a reader over a byte array, position in bits from the      *)
(* start.  Bits are taken most significant first; a span is assembled byte *)
(* by byte, the first byte giving the high bits.                           *)
(***************************************************************************)
\* bits left between the position and the end of the supplied bytes
BitsLeft(data, pos) == 8 * Len(data) - pos

\* one bit at pos
BitAtPos(data, pos) == BitOf(data[(pos \div 8) + 1], 7 - (pos % 8))

\* n bits from pos, n <= BitsLeft
RECURSIVE ReadSpan(_, _, _, _)
ReadSpan(data, pos, n, acc) ==
  IF n = 0
  THEN acc
  ELSE LET byte  == data[(pos \div 8) + 1]
           avail == 8 - (pos % 8)
           take  == IF n <= avail THEN n ELSE avail
           chunk == (byte \div Pow2(avail - take)) % Pow2(take)
       IN  ReadSpan(data, pos + take, n - take, acc * Pow2(take) + chunk)

\* what a reader call leaves in `rlast`; retry: it repeats a failed call
RCall(op, n, err, val, test) ==
  [op |-> op, n |-> n, err |-> err, val |-> val, pos |-> rpos, test |-> test,
   avail |-> Len(rdata),
   retry |-> /\ rlast.err = "BufferEndReached" /\ rlast.op = op
             /\ rlast.n = n /\ rlast.pos = rpos,
   peeked |-> IF /\ rlast.op \in {"peekBits", "peekBit"} /\ rlast.err = "Ok"
                 /\ op \in {"readBits", "readBit"} /\ rlast.n = n
              THEN rlast.val ELSE -1]

\* readBits(n) that drops the bits left when it fails
ReadCallConsuming(op, n, peek, test) ==
  IF BitsLeft(rdata, rpos) < n
  THEN /\ rlast' = RCall(op, n, "BufferEndReached", 0, test)
       /\ rpos' = 8 * Len(rdata)
  ELSE /\ rlast' = RCall(op, n, "Ok", ReadSpan(rdata, rpos, n, 0), test)
       /\ rpos' = IF peek THEN rpos ELSE rpos + n

\* readBits(n), readBits<n>(): peek = FALSE; peekBits(n), peekBits<n>(): peek = TRUE
ReadCall(op, n, peek, test) ==
  IF BitsLeft(rdata, rpos) < n
  THEN /\ rlast' = RCall(op, n, "BufferEndReached", 0, test)
       /\ rpos' = rpos
  ELSE /\ rlast' = RCall(op, n, "Ok", ReadSpan(rdata, rpos, n, 0), test)
       /\ rpos' = IF peek THEN rpos ELSE rpos + n

\* readBit(): peek = FALSE; peekBit(): peek = TRUE
BitCall(op, peek, test) ==
  IF BitsLeft(rdata, rpos) < 1
  THEN /\ rlast' = RCall(op, 1, "BufferEndReached", 0, test)
       /\ rpos' = rpos
  ELSE /\ rlast' = RCall(op, 1, "Ok", BitAtPos(rdata, rpos), test)
       /\ rpos' = IF peek THEN rpos ELSE rpos + 1

ReaderOp(op, n, test) ==
  CASE op = "readBits" -> ReadCall(op, n, FALSE, test)
    [] op = "peekBits" -> ReadCall(op, n, TRUE, test)
    [] op = "readBit"  -> BitCall(op, FALSE, test)
    [] op = "peekBit"  -> BitCall(op, TRUE, test)

ReaderOps == {"readBits", "peekBits", "readBit", "peekBit"}

\* a call made by any caller
readerCall(op, n) ==
  /\ ReaderOp(op, n, 0)
  /\ tstep' = -1
  /\ UNCHANGED <<rfull, rdata>>

\* the caller supplies the next byte of the input
supplyByte ==
  /\ Len(rdata) < Len(rfull)
  /\ rdata' = Append(rdata, rfull[Len(rdata) + 1])
  /\ tstep' = -1
  /\ UNCHANGED <<rfull, rpos, rlast>>

(***************************************************************************)
(* Driver main, the InBitStream checks: the data, and each exi_assert as   *)
(* <<call, bit count, expected value>>.                                    *)
(***************************************************************************)
Data == <<150, 187, 254>>

\* the checks with the 12-bit value assembled low byte first
BitStreamChecksLow ==
  << <<"peekBit", 1, 1>>, <<"peekBits", 4, 9>>, <<"readBits", 4, 9>>,
     <<"readBits", 3, 3>>, <<"readBit", 1, 0>>, <<"peekBits", 4, 11>>,
     <<"readBits", 4, 11>>, <<"readBits", 12, 4075>> >>

BitStreamChecks ==
  << <<"peekBit", 1, 1>>, <<"peekBits", 4, 9>>, <<"readBits", 4, 9>>,
     <<"readBits", 3, 3>>, <<"readBit", 1, 0>>, <<"peekBits", 4, 11>>,
     <<"readBits", 4, 11>>, <<"readBits", 12, 3070>> >>

\* main with every peek made as the read of the same width
mainCheckReading ==
  /\ tstep >= 0
  /\ tstep < Len(BitStreamChecks)
  /\ ReaderOp(CASE BitStreamChecks[tstep + 1][1] = "peekBit" -> "readBit"
               [] BitStreamChecks[tstep + 1][1] = "peekBits" -> "readBits"
               [] OTHER -> BitStreamChecks[tstep + 1][1],
              BitStreamChecks[tstep + 1][2], tstep + 1)
  /\ tstep' = tstep + 1
  /\ UNCHANGED <<rfull, rdata>>

\* main runs its next check
mainCheck ==
  /\ tstep >= 0
  /\ tstep < Len(BitStreamChecks)
  /\ ReaderOp(BitStreamChecks[tstep + 1][1], BitStreamChecks[tstep + 1][2], tstep + 1)
  /\ tstep' = tstep + 1
  /\ UNCHANGED <<rfull, rdata>>

NoRead ==
  [op |-> "none", n |-> 0, err |-> "Ok", val |-> 0, pos |-> 0, test |-> 0,
   avail |-> 0, retry |-> FALSE, peeked |-> -1]

\* no reader constructed
InitNoReader ==
  /\ rfull = <<>>
  /\ rdata = <<>>
  /\ rpos = 0
  /\ rlast = NoRead
  /\ tstep = -1

\* inputs of the reader machine
Inputs == {Data, <<165, 90>>, <<255, 0, 129>>}

\* InBitStream BS(bytes): constructed over the first bytes of an input
InitReader ==
  /\ rfull \in Inputs
  /\ \E k \in 0..Len(rfull) : rdata = SubSeq(rfull, 1, k)
  /\ rpos = 0
  /\ rlast = NoRead
  /\ tstep = IF rfull = Data /\ rdata = Data THEN 0 ELSE -1

(***************************************************************************)
(* The header decoder: ExiDecoder (exi/Decode/BodyDecoder.hpp) filling the *)
(* ExiHeader of exi/Basic/ExiHeader.hpp.  decodeHeader is declared in the  *)
(* class and defined in HeaderDecoder.cpp; its steps are those of the      *)
(* header codec: cookie, distinguishing bits, presence bit, preview field, *)
(* version groups, options document.                                       *)
(*                                                                         *)
(* An options document is the set of the option elements it contains.  The *)
(* bits of the document itself are not modelled: a call records the bit    *)
(* position at which the version field ends.                               *)
(***************************************************************************)
\* ExiHeader.hpp: inline constexpr u32 kCurrentExiVersion = 1
kCurrentExiVersion == 1

\* MaybeBoxed<ExiOptions> holding nothing
NoOpts == [present |-> FALSE, doc |-> {}]

\* struct ExiHeader with its default member initialisers
ExiHeader ==
  [HasCookie |-> TRUE, IsPreviewVersion |-> FALSE,
   ExiVersion |-> kCurrentExiVersion, Opts |-> NoOpts]

\* DecoderFlags with the bit set from the start
DecoderFlagsSet == [DidHeader |-> TRUE]

\* struct DecoderFlags with its default member initialiser
DecoderFlags == [DidHeader |-> FALSE]

\* bool didHeader() const { return Flags.DidHeader; }
didHeader == Flags.DidHeader

\* the bytes "$exi"
CookieLowerCase == <<36, 101, 120, 105>>

\* the bytes "$EXI"
Cookie == <<36, 69, 88, 73>>

\* the first four bytes are "$EXI"
StartsWithCookie(bytes) == Len(bytes) >= 4 /\ SubSeq(bytes, 1, 4) = Cookie

\* the version field from bit position pos: 4-bit groups, a group below 15
\* ends it; acc is 1 plus the groups read so far
RECURSIVE readVersion(_, _, _)
readVersion(bytes, pos, acc) ==
  IF BitsLeft(bytes, pos) < 4
  THEN [err |-> "BufferEndReached", pos |-> pos, version |-> acc]
  ELSE LET g == ReadSpan(bytes, pos, 4, 0)
       IN  IF g < 15
           THEN [err |-> "Ok", pos |-> pos + 4, version |-> acc + g]
           ELSE readVersion(bytes, pos + 4, acc + g)

\* the "alignment" element of an options document holds "byte" or "pre-compress"
HasAlignment(doc) == "byte" \in doc \/ "pre-compress" \in doc

\* rules 1 to 3 without the pre-compression case of rule 3
OptionsMismatchNoPreCompress(doc) ==
  \/ HasAlignment(doc) /\ "compression" \in doc
  \/ /\ "strict" \in doc
     /\ doc \cap {"dtd", "prefixes", "comments", "pis", "selfContained"} # {}
  \/ /\ "selfContained" \in doc
     /\ doc \cap {"compression", "strict"} # {}
  \/ /\ "datatypeRepresentationMap" \in doc
     /\ ("lexicalValues" \in doc \/ "schemaId" \notin doc)

\* EXIP_HEADER_OPTIONS_MISMATCH, causes 1 to 4 (cause 5 is about options
\* given out of band, which ExiDecoder does not take)
OptionsMismatch(doc) ==
  \/ HasAlignment(doc) /\ "compression" \in doc
  \/ /\ "strict" \in doc
     /\ doc \cap {"dtd", "prefixes", "comments", "pis", "selfContained"} # {}
  \/ /\ "selfContained" \in doc
     /\ doc \cap {"compression", "pre-compress", "strict"} # {}
  \/ /\ "datatypeRepresentationMap" \in doc
     /\ ("lexicalValues" \in doc \/ "schemaId" \notin doc)

\* what a decodeHeader call leaves in `hlast`: distAt is the bit position the
\* distinguishing bits are read at, pos the position the call stopped at,
\* pre the decoder before the call
HCall(bytes, doc, err, distAt, pos) ==
  [called |-> TRUE, bytes |-> bytes, doc |-> doc, err |-> err,
   distAt |-> distAt, pos |-> pos,
   pre |-> [Header |-> Header, DidHeader |-> Flags.DidHeader]]

\* decodeHeader returns an error: what was read so far stays recorded
headerFails(H, bytes, doc, err, distAt, pos) ==
  /\ Header' = H
  /\ Flags' = Flags
  /\ hlast' = HCall(bytes, doc, err, distAt, pos)

\* ExiError decodeHeader(UnifiedBuffer Buffer) on the bytes of Buffer; doc is
\* the options document that follows the version when the presence bit is set
decodeHeader(bytes, doc) ==
  LET cookie == StartsWithCookie(bytes)
      p0     == IF cookie THEN 32 ELSE 0
      H1     == [Header EXCEPT !.HasCookie = cookie]
  IN
     IF BitsLeft(bytes, p0) < 2
     THEN headerFails(H1, bytes, {}, "BufferEndReached", p0, p0)
     ELSE IF ReadSpan(bytes, p0, 2, 0) # 2
     THEN headerFails(H1, bytes, {}, "InvalidExiHeader", p0, p0 + 2)
     ELSE IF BitsLeft(bytes, p0 + 2) < 5
     THEN headerFails(H1, bytes, {}, "BufferEndReached", p0, p0 + 2)
     ELSE
       LET presence == BitAtPos(bytes, p0 + 2)
           preview  == ReadSpan(bytes, p0 + 3, 4, 0)
           ver      == readVersion(bytes, p0 + 7, 1)
           H3       == [H1 EXCEPT !.IsPreviewVersion = (preview # 0),
                                  !.ExiVersion = ver.version]
       IN  IF ver.err # "Ok"
           THEN headerFails(H1, bytes, {}, ver.err, p0, ver.pos)
           ELSE IF presence = 1 /\ OptionsMismatch(doc)
           THEN headerFails(H3, bytes, doc, "HeaderOptionsMismatch", p0, ver.pos)
           ELSE /\ Header' = [H3 EXCEPT !.Opts =
                                IF presence = 1
                                THEN [present |-> TRUE, doc |-> doc]
                                ELSE NoOpts]
                /\ Flags' = [Flags EXCEPT !.DidHeader = TRUE]
                /\ hlast' = HCall(bytes, IF presence = 1 THEN doc ELSE {},
                                  "Ok", p0, ver.pos)

NoHCall ==
  [called |-> FALSE, bytes |-> <<>>, doc |-> {}, err |-> "Ok", distAt |-> 0,
   pos |-> 0, pre |-> [Header |-> ExiHeader, DidHeader |-> FALSE]]

\* ExiDecoder() = default
InitDecoder ==
  /\ Header = ExiHeader
  /\ Flags = DecoderFlags
  /\ hlast = NoHCall

(***************************************************************************)
(* The decoder's string table: decode::StringTable, URIInfo and LocalName  *)
(* (exi/Decode/BodyDecoder.hpp).  The accessors, the partition check and   *)
(* createLocalName / createGlobalValue are defined in the class; setup,    *)
(* createInitialEntries, createURI and the add operations are declared     *)
(* there and follow the operations of the string tables component.         *)
(*                                                                         *)
(* A compact ID is an index from 0; sequences are indexed from 1.  An      *)
(* Option is a sequence of at most one element.                            *)
(***************************************************************************)
\* smallest k with 2^k >= x
RECURSIVE CeilLog2(_)
CeilLog2(x) == IF x <= 1 THEN 0 ELSE 1 + CeilLog2((x + 1) \div 2)

\* CompactIDLog2<Offset>(ID): the compact-ID log of ID + Offset
CompactIDLog2(Offset, ID) == CeilLog2(ID + Offset)

\* CompactIDCounter<Offset>: the count and the cached bit width
NewCounter == [n |-> 0, bits |-> 0]

\* ++Counter: the width grows by one bit when the count outgrows it
CounterInc(Offset, c) ==
  [n |-> c.n + 1,
   bits |-> IF Pow2(c.bits) < c.n + 1 + Offset THEN c.bits + 1 ELSE c.bits]

\* struct URIInfo with its default member initialisers
URIInfo(Name) == [Name |-> Name, PrefixElts |-> 1, LNElts |-> 0]

\* createLocalName(Name): LocalName { .Name = Str, .LocalValues = {} }
createLocalName(Name) == [Name |-> Name, LocalValues |-> <<>>]

\* u32 LocalName::bits() const
bits(ln) == CompactIDLog2(0, Len(ln.LocalValues) + 1)

\* u32 LocalName::bytes() const
LocalNameBytes(ln) ==
  IF Len(ln.LocalValues) = 0 THEN 0 ELSE (bits(ln) \div 8) + 1

\* StringTable()
NewTable ==
  [URIMap |-> <<>>, URICount |-> NewCounter, PrefixMap |-> <<>>,
   LNMap |-> <<>>, LNCount |-> NewCounter,
   GValueMap |-> <<>>, GValueCount |-> NewCounter,
   DidSetup |-> FALSE, WrappingValues |-> FALSE]

\* the partition check that compares the URI count with the number of
\* local names of all URIs
RECURSIVE SumLNElts(_)
SumLNElts(um) == IF um = <<>> THEN 0 ELSE Head(um).LNElts + SumLNElts(Tail(um))

assertPartitionsInSyncAllNames(t) ==
  /\ Len(t.URIMap) = Len(t.PrefixMap)
  /\ Len(t.URIMap) = SumLNElts(t.URIMap)

\* assertPartitionsInSync(): both exi_invariant conditions hold
assertPartitionsInSync(t) ==
  /\ Len(t.URIMap) = Len(t.PrefixMap)
  /\ Len(t.URIMap) = t.LNCount.n

\* createURI(URI, Pfx): a new entry in the URI partition with its prefix
\* partition and its empty local-name partition
createURI(t, URI, Pfx) ==
  [t EXCEPT !.URIMap = Append(@, [URIInfo(URI) EXCEPT !.PrefixElts = Len(Pfx)]),
            !.URICount = CounterInc(1, @),
            !.PrefixMap = Append(@, Pfx),
            !.LNMap = Append(@, <<>>),
            !.LNCount = CounterInc(0, @)]

\* appendLocalNames(ID, LocalNames)
appendLocalNames(t, ID, LocalNames) ==
  [t EXCEPT !.LNMap[ID + 1] =
              @ \o [i \in 1..Len(LocalNames) |-> createLocalName(LocalNames[i])],
            !.URIMap[ID + 1].LNElts = @ + Len(LocalNames)]

\* the initial entries of the EXI string tables
XMLNames == <<"base", "id", "lang", "space">>

XSINames == <<"nil", "type">>

XSDNames ==
  <<"ENTITIES", "ENTITY", "ID", "IDREF", "IDREFS", "NCName", "NMTOKEN",
    "NMTOKENS", "NOTATION", "Name", "QName", "anySimpleType", "anyType",
    "anyURI", "base64Binary", "boolean", "byte", "date", "dateTime",
    "decimal", "double", "duration", "float", "gDay", "gMonth", "gMonthDay",
    "gYear", "gYearMonth", "hexBinary", "int", "integer", "language", "long",
    "negativeInteger", "nonNegativeInteger", "nonPositiveInteger",
    "normalizedString", "positiveInteger", "short", "string", "time", "token",
    "unsignedByte", "unsignedInt", "unsignedLong", "unsignedShort">>

\* createInitialEntries that adds the XSD namespace whatever UsesSchema is
createInitialEntriesWithXSD(t, UsesSchema) ==
  LET t0 == createURI(t, "", <<"">>)
      t1 == appendLocalNames(
              createURI(t0, "http://www.w3.org/XML/1998/namespace", <<"xml">>), 1, XMLNames)
      t2 == appendLocalNames(
              createURI(t1, "http://www.w3.org/2001/XMLSchema-instance", <<"xsi">>), 2, XSINames)
  IN  appendLocalNames(createURI(t2, "http://www.w3.org/2001/XMLSchema", <<>>), 3, XSDNames)

\* createInitialEntries(UsesSchema)
createInitialEntries(t, UsesSchema) ==
  LET t0 == createURI(t, "", <<"">>)
      t1 == appendLocalNames(
              createURI(t0, "http://www.w3.org/XML/1998/namespace", <<"xml">>), 1, XMLNames)
      t2 == appendLocalNames(
              createURI(t1, "http://www.w3.org/2001/XMLSchema-instance", <<"xsi">>), 2, XSINames)
  IN  IF UsesSchema
      THEN appendLocalNames(createURI(t2, "http://www.w3.org/2001/XMLSchema", <<>>), 3, XSDNames)
      ELSE t2

\* createGlobalValue without ++GValueCount
createGlobalValueUncounted(t, Value) ==
  [t EXCEPT !.GValueMap = Append(@, Value)]

\* createGlobalValue(Value): GValueMap.push_back(Str); ++GValueCount
createGlobalValue(t, Value) ==
  [t EXCEPT !.GValueMap = Append(@, Value),
            !.GValueCount = CounterInc(0, @)]

\* result of a string table call
Res(kind, str, num) == [kind |-> kind, str |-> str, num |-> num]

\* a failed exi_invariant: exi_assert_impl aborts the process when the build
\* has EXI_INVARIANTS, otherwise execution continues past the violated
\* condition and the behaviour is undefined
InvariantFailure == {"abort", "undefined"}

\* StrRef getURI(CompactID URI) const
getURI(t, URI) ==
  IF URI < Len(t.URIMap) /\ assertPartitionsInSync(t)
  THEN {Res("ok", t.URIMap[URI + 1].Name, URI)}
  ELSE {Res(k, "", 0) : k \in InvariantFailure}

\* StrRef getLocalName(CompactID URI, CompactID LocalID) const; the index
\* LocalID is not checked by the accessor: out of range it is an
\* out-of-bounds read of LNMap[URI]
getLocalName(t, URI, LocalID) ==
  IF URI < Len(t.URIMap) /\ assertPartitionsInSync(t)
  THEN IF LocalID < Len(t.LNMap[URI + 1])
       THEN {Res("ok", t.LNMap[URI + 1][LocalID + 1].Name, LocalID)}
       ELSE {Res(k, "", 0) : k \in InvariantFailure}
  ELSE {Res(k, "", 0) : k \in InvariantFailure}

\* u64 getURILog() const { return URICount.bits(); }
getURILog(t) == {Res("ok", "", t.URICount.bits)}

\* u64 getLocalNameLog(CompactID URI) const
getLocalNameLog(t, URI) ==
  IF URI < Len(t.URIMap) /\ assertPartitionsInSync(t)
  THEN {Res("ok", "", CompactIDLog2(0, t.URIMap[URI + 1].LNElts))}
  ELSE {Res(k, "", 0) : k \in InvariantFailure}

\* what a string table call leaves in `slast`
SCall(op, URI, LocalID, str, res) ==
  [op |-> op, URI |-> URI, LocalID |-> LocalID, str |-> str, res |-> res,
   pre |-> tbl]

\* the process has not been aborted
Running == slast.res.kind # "abort"

\* a call that changes the table to t and returns res
Mutates(t, call) ==
  /\ Running /\ tbl.DidSetup
  /\ tbl' = t
  /\ slast' = call
  /\ sops' = sops + 1
  /\ UNCHANGED sopts

\* void setup(const ExiOptions& Opts), allowed on a table that was set up
setupAgain(Opts) ==
  /\ Running
  /\ tbl' = [createInitialEntries(NewTable, Opts.SchemaID # <<>>) EXCEPT
               !.DidSetup = TRUE,
               !.WrappingValues = (Opts.ValuePartitionCapacity # <<>>)]
  /\ sopts' = Opts
  /\ slast' = SCall("setup", 0, 0, "", Res("ok", "", 0))
  /\ UNCHANGED sops

\* void setup(const ExiOptions& Opts)
setup(Opts) ==
  /\ Running /\ ~tbl.DidSetup
  /\ tbl' = [createInitialEntries(tbl, Opts.SchemaID # <<>>) EXCEPT
               !.DidSetup = TRUE,
               !.WrappingValues = (Opts.ValuePartitionCapacity # <<>>)]
  /\ sopts' = Opts
  /\ slast' = SCall("setup", 0, 0, "", Res("ok", "", 0))
  /\ UNCHANGED sops

\* IDPair addURI(StrRef URI, Option<StrRef> Pfx)
addURI(URI, Pfx) ==
  Mutates(createURI(tbl, URI, Pfx),
          SCall("addURI", Len(tbl.URIMap), 0, URI,
                Res("ok", URI, Len(tbl.URIMap))))

\* StrRef addPrefix(CompactID URI, StrRef Pfx)
addPrefix(URI, Pfx) ==
  /\ URI < Len(tbl.URIMap)
  /\ Mutates([tbl EXCEPT !.PrefixMap[URI + 1] = Append(@, Pfx),
                         !.URIMap[URI + 1].PrefixElts = @ + 1],
             SCall("addPrefix", URI, 0, Pfx, Res("ok", Pfx, 0)))

\* IDPair addLocalName(CompactID URI, StrRef Name)
addLocalName(URI, Name) ==
  /\ URI < Len(tbl.URIMap)
  /\ Mutates([tbl EXCEPT !.LNMap[URI + 1] = Append(@, createLocalName(Name)),
                         !.URIMap[URI + 1].LNElts = @ + 1],
             SCall("addLocalName", URI, Len(tbl.LNMap[URI + 1]), Name,
                   Res("ok", Name, Len(tbl.LNMap[URI + 1]))))

\* StrRef addValue(StrRef Value)
addValue(Value) ==
  Mutates(createGlobalValue(tbl, Value),
          SCall("addValue", 0, 0, Value, Res("ok", Value, 0)))

\* StrRef addValue(CompactID URI, CompactID LocalID, StrRef Value)
addValueLocal(URI, LocalID, Value) ==
  /\ URI < Len(tbl.URIMap)
  /\ LocalID < Len(tbl.LNMap[URI + 1])
  /\ Mutates([createGlobalValue(tbl, Value) EXCEPT
                !.LNMap[URI + 1][LocalID + 1].LocalValues = Append(@, Value)],
             SCall("addValueLocal", URI, LocalID, Value, Res("ok", Value, 0)))

\* a call of an accessor: the table is left as it is
Query(op, URI, LocalID, results) ==
  /\ Running
  /\ \E r \in results : slast' = SCall(op, URI, LocalID, "", r)
  /\ sops' = sops + 1
  /\ UNCHANGED <<tbl, sopts>>

\* the ExiOptions a table is set up with: SchemaID absent (schema-less) or
\* the empty string (built-in schema), ValuePartitionCapacity unbounded or c
TableOptions ==
  [SchemaID : {<<>>, <<"">>}, ValuePartitionCapacity : {<<>>, <<MaxCapacity>>}]

NoSCall == [op |-> "none", URI |-> 0, LocalID |-> 0, str |-> "",
            res |-> Res("ok", "", 0), pre |-> NewTable]

\* a constructed table, not set up
InitTable ==
  /\ tbl = NewTable
  /\ sopts = [SchemaID |-> <<>>, ValuePartitionCapacity |-> <<>>]
  /\ slast = NoSCall
  /\ sops = 0

(***************************************************************************)
(* The status codes: enum errorCode (exip/errorHandle.h).  The enumerators *)
(* in the order of their values, EXIP_OK = 0 to EXIP_HANDLER_STOP = 16;    *)
(* EXIP_ERROR_LAST, which follows, is their count and no code.             *)
(***************************************************************************)
errorCodeWithoutBufferEnd ==
  <<"EXIP_OK", "EXIP_NOT_IMPLEMENTED_YET", "EXIP_UNEXPECTED_ERROR",
    "EXIP_HASH_TABLE_ERROR", "EXIP_OUT_OF_BOUND_BUFFER",
    "EXIP_NULL_POINTER_REF", "EXIP_MEMORY_ALLOCATION_ERROR",
    "EXIP_INVALID_EXI_HEADER", "EXIP_INCONSISTENT_PROC_STATE",
    "EXIP_INVALID_EXI_INPUT", "EXIP_PARSING_COMPLETE",
    "EXIP_INVALID_EXIP_CONFIGURATION",
    "EXIP_NO_PREFIXES_PRESERVED_XML_SCHEMA", "EXIP_INVALID_STRING_OPERATION",
    "EXIP_HEADER_OPTIONS_MISMATCH", "EXIP_HANDLER_STOP">>

errorCode ==
  <<"EXIP_OK", "EXIP_NOT_IMPLEMENTED_YET", "EXIP_UNEXPECTED_ERROR",
    "EXIP_HASH_TABLE_ERROR", "EXIP_OUT_OF_BOUND_BUFFER",
    "EXIP_NULL_POINTER_REF", "EXIP_MEMORY_ALLOCATION_ERROR",
    "EXIP_INVALID_EXI_HEADER", "EXIP_INCONSISTENT_PROC_STATE",
    "EXIP_INVALID_EXI_INPUT", "EXIP_BUFFER_END_REACHED",
    "EXIP_PARSING_COMPLETE", "EXIP_INVALID_EXIP_CONFIGURATION",
    "EXIP_NO_PREFIXES_PRESERVED_XML_SCHEMA", "EXIP_INVALID_STRING_OPERATION",
    "EXIP_HEADER_OPTIONS_MISMATCH", "EXIP_HANDLER_STOP">>

(***************************************************************************)
(* The encoder's string table: class encode::StringTable                   *)
(* (exi/Decode/BodyDecoder.hpp), which holds an allocator and a string     *)
(* uniquer and declares no partition, no counter and no operation.         *)
(***************************************************************************)
EncodeStringTable == [NameCache |-> {}]

\* the partition contents and bit widths of a string table; a partition
\* the table does not have holds nothing
TableState(t) ==
  [f \in {"URIMap", "URICount", "PrefixMap", "LNMap", "LNCount",
          "GValueMap", "GValueCount"} |->
     IF f \in DOMAIN t THEN t[f] ELSE NewTable[f]]

(***************************************************************************)
(* The n-bit integer types ibit<n> and ubit<n> and the checked casts, as   *)
(* main of the driver uses them.  A type is its signedness and its width;  *)
(* a value is the integer it denotes.                                      *)
(***************************************************************************)
\* FromBits without the sign: the low T.bits bits of v read as a natural
FromBitsUnsigned(T, v) == v % Pow2(T.bits)

\* the value of type T with the low T.bits bits of v: T::FromBits(v), and
\* the conversion of v to T
FromBits(T, v) ==
  LET low == v % Pow2(T.bits)
  IN IF T.signed /\ low >= Pow2(T.bits - 1) THEN low - Pow2(T.bits) ELSE low

\* CheckIntCast<T>(x): the conversion to T keeps the value
CheckIntCast(T, x) == FromBits(T, x) = x

\* IntCastOrZero<T>(x)
IntCastOrZero(T, x) == IF CheckIntCast(T, x) THEN FromBits(T, x) ELSE 0

\* the storage word of a value of type T, as bit_cast<u64> reads it: the
\* T.bits low bits hold the value in two's complement, the bits above are
\* clear
AllData(T, val) == val % Pow2(T.bits)

\* BitData(Val): the value, its storage word and its width
BitData(T, val) ==
  [Converted |-> val, AllData |-> AllData(T, val), Bits |-> T.bits]

\* commonChecks(I, U, IZero, UZero, kBits): the two storage words are the
\* same and equal to kBits
commonChecks(I, U, kBits) ==
  IF I.AllData # U.AllData THEN FALSE
  ELSE IF I.AllData # kBits THEN FALSE
  ELSE TRUE

\* what a call leaves in `fcall`: the function, the type and the value it
\* is called with, the result as a truth value and as a number, and the
\* number of checks main has passed (-1: a check has failed)
FCall(fn, T, x, ok, res) ==
  [fn |-> fn, T |-> T, x |-> x, ok |-> ok, res |-> res, step |-> fcall.step]

\* a call of a checked cast
castCall(fn, T, x) ==
  fcall' = FCall(fn, T, x, CheckIntCast(T, x),
                 IF fn = "IntCastOrZero" THEN IntCastOrZero(T, x) ELSE 0)

\* a call of T::FromBits
fromBitsCall(T, x) ==
  fcall' = FCall("FromBits", T, x, TRUE, FromBits(T, x))

\* testBits<Bits>(): kBits is the all-ones word shifted right until Bits
\* bits of it are left
testBits(Bits) ==
  LET kBits == (Pow2(MaxBits) - 1) \div Pow2(MaxBits - Bits)
      SInt == [signed |-> TRUE, bits |-> Bits]
      UInt == [signed |-> FALSE, bits |-> Bits]
      I == FromBits(SInt, kBits)
      U == FromBits(UInt, kBits)
  IN fcall' = FCall("testBits", SInt, kBits,
                    commonChecks(BitData(SInt, I), BitData(UInt, U), kBits),
                    I)

\* bytes() of a local name with n local values
bytesCall(n) ==
  fcall' = FCall("bytes", [signed |-> FALSE, bits |-> 0], n, TRUE,
                 LocalNameBytes([createLocalName("a") EXCEPT
                          !.LocalValues = [i \in 1..n |-> "v"]]))

\* the checks of main with the truth value of CheckIntCast<ibit<4>>(31)
\* turned round
IntChecksFitting ==
  << [fn |-> "CheckIntCast", T |-> [signed |-> FALSE, bits |-> 8], x |-> 0,
      ok |-> TRUE, res |-> 0],
     [fn |-> "CheckIntCast", T |-> [signed |-> TRUE, bits |-> 8], x |-> 0,
      ok |-> TRUE, res |-> 0],
     [fn |-> "CheckIntCast", T |-> [signed |-> TRUE, bits |-> 4], x |-> 31,
      ok |-> TRUE, res |-> 0] >>

\* the checks of main: the call made and the result asserted.  I is
\* ibit<4>::FromBits(0b1111) in the fourth, ibit<8>(-1) in the sixth and
\* ibit<8>::FromBits(0b11111) in the eighth; U is ubit<5>::FromBits(I) in
\* the ninth; the last is I2 == I3 with I3 the conversion of ibit<8>(-1)
IntChecks ==
  << [fn |-> "CheckIntCast", T |-> [signed |-> FALSE, bits |-> 8], x |-> 0,
      ok |-> TRUE, res |-> 0],
     [fn |-> "CheckIntCast", T |-> [signed |-> TRUE, bits |-> 8], x |-> 0,
      ok |-> TRUE, res |-> 0],
     [fn |-> "CheckIntCast", T |-> [signed |-> TRUE, bits |-> 4], x |-> 31,
      ok |-> FALSE, res |-> 0],
     [fn |-> "IntCastOrZero", T |-> [signed |-> FALSE, bits |-> 4],
      x |-> FromBits([signed |-> TRUE, bits |-> 4], 15),
      ok |-> FALSE, res |-> 0],
     [fn |-> "CheckIntCast", T |-> [signed |-> TRUE, bits |-> 8], x |-> 31,
      ok |-> TRUE, res |-> 0],
     [fn |-> "IntCastOrZero", T |-> [signed |-> FALSE, bits |-> 5], x |-> -1,
      ok |-> FALSE, res |-> 0],
     [fn |-> "FromBits", T |-> [signed |-> TRUE, bits |-> 8], x |-> 31,
      ok |-> TRUE, res |-> 31],
     [fn |-> "IntCastOrZero", T |-> [signed |-> FALSE, bits |-> 5],
      x |-> FromBits([signed |-> TRUE, bits |-> 8], 31),
      ok |-> TRUE, res |-> 31],
     [fn |-> "FromBits", T |-> [signed |-> TRUE, bits |-> 5],
      x |-> FromBits([signed |-> FALSE, bits |-> 5],
                     FromBits([signed |-> TRUE, bits |-> 8], 31)),
      ok |-> TRUE, res |-> -1],
     [fn |-> "FromBits", T |-> [signed |-> TRUE, bits |-> 5],
      x |-> FromBits([signed |-> TRUE, bits |-> 8], -1),
      ok |-> TRUE,
      res |-> FromBits([signed |-> TRUE, bits |-> 5],
                       FromBits([signed |-> FALSE, bits |-> 5], 31))] >>

\* main runs its next check; exi_assert ends the run when it fails
mainIntCheck ==
  /\ fcall.step >= 0
  /\ fcall.step < Len(IntChecks)
  /\ LET check == IntChecks[fcall.step + 1]
         ok == CheckIntCast(check.T, check.x)
         res == IF check.fn = "IntCastOrZero"
                THEN IntCastOrZero(check.T, check.x)
                ELSE IF check.fn = "FromBits"
                THEN FromBits(check.T, check.x) ELSE 0
         holds == IF check.fn = "CheckIntCast" THEN ok = check.ok
                  ELSE res = check.res
     IN fcall' = [FCall(check.fn, check.T, check.x, ok, res)
                    EXCEPT !.step = IF holds THEN fcall.step + 1 ELSE -1]

(***************************************************************************)
(* The string value codec (typed value codec, String).  A string is a      *)
(* sequence of code points.  A value is encoded as a length prefix, an     *)
(* unsigned varint, and a payload: the bits of a compact ID on a hit, the  *)
(* code points on a miss.  The value partitions are keyed by the qualified *)
(* name (URI, LocalName) the value occurs under.                           *)
(***************************************************************************)
\* the compact ID id as a field of w bits, high bit first
IDBits(id, w) == [i \in 1..w |-> (id \div Pow2(w - i)) % 2]

\* the four paths of the encoder, selected in order
encodeString(t, q, s) ==
  IF Len(s) = 0
  THEN [branch |-> "empty", prefix |-> 1, payload |-> <<>>]
  ELSE IF \E i \in 1..Len(t.Local[q]) : t.Local[q][i] = s
  THEN LET id == (CHOOSE i \in 1..Len(t.Local[q]) : t.Local[q][i] = s) - 1
       IN [branch |-> "local", prefix |-> 0,
           payload |-> IDBits(id, CeilLog2(Len(t.Local[q])))]
  ELSE IF \E i \in 1..Len(t.Global) : t.Global[i] = s
  THEN LET id == (CHOOSE i \in 1..Len(t.Global) : t.Global[i] = s) - 1
       IN [branch |-> "global", prefix |-> 1,
           payload |-> IDBits(id, CeilLog2(Len(t.Global)))]
  ELSE [branch |-> "miss", prefix |-> Len(s) + 2, payload |-> s]

\* the entries of a partition a compact ID field can denote: the bits read
\* past the end of the payload are the bits that follow the value in the
\* stream, which are not the value's
Denoted(part, payload) ==
  {part[i] : i \in {j \in 1..Len(part) :
      LET field == IDBits(j - 1, CeilLog2(Len(part)))
      IN \A k \in 1..Len(field) : k <= Len(payload) => payload[k] = field[k]}}

\* the decoder: the first varint selects the branch; the strings the
\* decoder can deliver for the length prefix 1, which two paths of the
\* encoder emit, are those of both
decodeString(t, q, enc) ==
  IF enc.prefix = 0 THEN Denoted(t.Local[q], enc.payload)
  ELSE IF enc.prefix = 1 THEN {<<>>} \cup Denoted(t.Global, enc.payload)
  ELSE {SubSeq(enc.payload, 1, enc.prefix - 2)}

\* a value is encoded under the name q and decoded from the same table
\* state; a miss adds the string to the local and the global partition
encodeValue(q, s) ==
  LET enc == encodeString(vtab, q, s)
  IN /\ vlast' = [op |-> "encode", q |-> q, str |-> s, enc |-> enc,
                  decoded |-> decodeString(vtab, q, enc), pre |-> vtab]
     /\ vtab' = IF enc.branch = "miss"
                THEN [Local |-> [vtab.Local EXCEPT ![q] = Append(@, s)],
                      Global |-> Append(vtab.Global, s)]
                ELSE vtab

(***************************************************************************)
(* The event handler of the driver: struct XMLBuilder (Driver.cpp), which  *)
(* builds a DOM from the events of the decoder.  The document is a         *)
(* sequence of nodes, node 1 the document node; a node holds its type, its *)
(* name, its value, its parent (0: none) and its attributes in order.  The *)
(* cursor node is the index of the current node, 0 the null pointer; attr  *)
(* is <<node, index>> for the attribute waiting for its value and <<>> for *)
(* the null pointer.  A name is the sequence of its parts, which the code  *)
(* joins with ":".  failed records a LOG_ASSERT whose condition was false  *)
(* or a member call through the null cursor.                               *)
(***************************************************************************)
\* XMLBuilder(): a document, the cursor on its document node
NewBuilder ==
  [nodes |-> <<[type |-> "node_document", name |-> <<>>, value |-> "",
                parent |-> 0, attrs |-> <<>>]>>,
   node |-> 1, attr |-> <<>>, failed |-> FALSE]

\* the type of the current node, "" through the null cursor
TypeOfNode(b) == IF b.node = 0 THEN "" ELSE b.nodes[b.node].type

startDocument(b) ==
  [b EXCEPT !.node = 1]

endDocument(b) ==
  [b EXCEPT !.failed = @ \/ TypeOfNode(b) # "node_document"]

\* internQName, makeNode, append_node: the new node becomes the current one
startElement(b, name) ==
  LET ln == IF name.prefix = ""
            THEN (IF name.localName = "" THEN <<>> ELSE <<name.localName>>)
            ELSE <<name.prefix, name.localName>>
      newNode == [type |-> IF ln = <<>> THEN "node_data" ELSE "node_element",
                  name |-> ln, value |-> "", parent |-> b.node,
                  attrs |-> <<>>]
  IN [b EXCEPT !.nodes = Append(@, newNode),
               !.node = Len(b.nodes) + 1,
               !.failed = @ \/ b.node = 0]

endElementStay(b) == b

endElement(b) ==
  IF b.node = 0 THEN [b EXCEPT !.failed = TRUE]
  ELSE [b EXCEPT !.node = b.nodes[b.node].parent]

namespaceDeclarationOfParent(b, ns, prefix, isLocal) ==
  LET target == IF b.nodes[b.node].parent = 0 THEN b.node
                ELSE b.nodes[b.node].parent
  IN [b EXCEPT !.nodes[target].name =
                  IF isLocal /\ prefix # "" THEN <<prefix>> \o @ ELSE @,
               !.nodes[target].attrs =
                  Append(@, [name |-> IF prefix = "" THEN <<"xmlns">>
                                      ELSE <<"xmlns", prefix>>,
                             value |-> ns])]

\* a local declaration with a prefix renames the current node; the
\* declaration itself becomes an attribute xmlns or xmlns:prefix of it
namespaceDeclaration(b, ns, prefix, isLocal) ==
  IF b.node = 0 THEN [b EXCEPT !.failed = TRUE]
  ELSE LET renamed == IF isLocal /\ prefix # ""
                      THEN <<prefix>> \o b.nodes[b.node].name
                      ELSE b.nodes[b.node].name
           fullPre == IF prefix = "" THEN <<"xmlns">> ELSE <<"xmlns", prefix>>
       IN [b EXCEPT !.nodes[b.node].name = renamed,
                    !.nodes[b.node].attrs =
                       Append(@, [name |-> fullPre, value |-> ns])]

attribute(b, name) ==
  IF b.node = 0 THEN [b EXCEPT !.failed = TRUE]
  ELSE [b EXCEPT !.nodes[b.node].attrs =
                    Append(@, [name |-> <<name.localName>>, value |-> ""]),
                 !.attr = <<b.node, Len(b.nodes[b.node].attrs) + 1>>,
                 !.failed = @ \/ b.attr # <<>>]

stringDataKeepAttr(b, str) ==
  IF b.attr # <<>>
  THEN [b EXCEPT !.nodes[b.attr[1]].attrs[b.attr[2]].value = str]
  ELSE [b EXCEPT !.nodes[b.node].value = str]

stringData(b, str) ==
  IF b.attr # <<>>
  THEN [b EXCEPT !.nodes[b.attr[1]].attrs[b.attr[2]].value = str,
                 !.attr = <<>>]
  ELSE IF b.node = 0 THEN [b EXCEPT !.failed = TRUE]
  ELSE [b EXCEPT !.nodes[b.node].value = str,
                 !.failed = @ \/ TypeOfNode(b) # "node_data"]

(***************************************************************************)
(* The body decoder and the schema-less grammars it walks (body codec,     *)
(* grammar engine).  One step reads a production of the current grammar    *)
(* and calls the handler; the value of an attribute is delivered by a      *)
(* second call.  The code a callback returns ends the parse when it is     *)
(* HandlerStop.  An entry of the grammar stack is the state of a grammar   *)
(* and the element it belongs to, elements numbered from 1 in the order    *)
(* their start tags are read, 0 the document.                              *)
(***************************************************************************)
\* the event kinds of the productions of a grammar state
Productions(state) ==
  CASE state = "Document" -> {"SD"}
    [] state = "DocContent" -> {"SE"}
    [] state = "DocEnd" -> {"ED"}
    [] state = "StartTagContent" -> {"EE", "AT", "NS", "SE", "CH"}
    [] state = "ElementContent" -> {"EE", "SE", "CH"}

\* the grammar stack after a production: SE leaves the state the parent
\* resumes in and pushes the child's grammar, EE pops, ED ends the document
Transition(stack, kind, elem) ==
  LET n == Len(stack)
      top == stack[n]
      resume == IF top.state = "DocContent" THEN "DocEnd" ELSE "ElementContent"
  IN CASE kind = "SD" -> <<[state |-> "DocContent", elem |-> 0]>>
       [] kind = "SE" -> SubSeq(stack, 1, n - 1)
                           \o <<[state |-> resume, elem |-> top.elem],
                                [state |-> "StartTagContent", elem |-> elem]>>
       [] kind = "CH" -> [stack EXCEPT ![n].state = "ElementContent"]
       [] kind \in {"EE", "ED"} -> SubSeq(stack, 1, n - 1)
       [] OTHER -> stack

\* the callback of the handler a production is delivered to
handle(b, prod) ==
  CASE prod.kind = "SD" -> startDocument(b)
    [] prod.kind = "ED" -> endDocument(b)
    [] prod.kind = "SE" -> startElement(b, prod.name)
    [] prod.kind = "EE" -> endElement(b)
    [] prod.kind = "NS" ->
         namespaceDeclaration(b, prod.name.uri, prod.name.prefix, prod.isLocal)
    [] prod.kind = "AT" -> attribute(b, prod.name)
    [] prod.kind = "CH" -> stringData(b, prod.str)

\* the name of the event a production is delivered as
EventOf(kind) ==
  CASE kind = "SD" -> "start_document"
    [] kind = "ED" -> "end_document"
    [] kind = "SE" -> "start_element"
    [] kind = "EE" -> "end_element"
    [] kind = "NS" -> "namespace_declaration"
    [] kind = "AT" -> "attribute"
    [] kind = "CH" -> "string_data"

\* the number of start tags read so far
Started == Cardinality({i \in 1..Len(events) : events[i].kind = "start_element"})

\* one step of the parse: a production is read and delivered; a code the
\* current grammar has no production for is invalid input
parseNext(prod, ret) ==
  /\ dres = "Ok" /\ dpend = <<>>
  /\ IF prod.kind \notin Productions(gstack[Len(gstack)].state)
     THEN /\ dres' = "InvalidExiInput"
          /\ UNCHANGED <<builder, gstack, dpos, dpend, events>>
     ELSE LET elem == IF prod.kind = "SE" THEN Started + 1
                      ELSE gstack[Len(gstack)].elem
              stack == Transition(gstack, prod.kind, elem)
          IN /\ dpos' = dpos + 1
             /\ events' = Append(events,
                  [kind |-> EventOf(prod.kind), name |-> prod.name,
                   str |-> IF prod.kind = "AT" THEN "" ELSE prod.str,
                   isLocal |-> prod.isLocal,
                   elem |-> elem, ret |-> ret])
             /\ builder' = handle(builder, prod)
             /\ IF ret = "HandlerStop"
                THEN dres' = "HandlerStop" /\ UNCHANGED <<gstack, dpend>>
                ELSE /\ gstack' = stack
                     /\ dpend' = IF prod.kind = "AT" THEN <<prod.str>> ELSE <<>>
                     /\ dres' = IF stack = <<>> THEN "ParsingComplete" ELSE "Ok"

deliverValueIgnoringStop(ret) ==
  /\ dres = "Ok" /\ dpend # <<>>
  /\ events' = Append(events,
       [kind |-> "string_data",
        name |-> [uri |-> "", localName |-> "", prefix |-> ""],
        str |-> dpend[1], isLocal |-> FALSE,
        elem |-> gstack[Len(gstack)].elem, ret |-> ret])
  /\ builder' = stringData(builder, dpend[1])
  /\ dpend' = <<>>
  /\ UNCHANGED <<gstack, dpos, dres>>

\* the value of the attribute just delivered
deliverValue(ret) ==
  /\ dres = "Ok" /\ dpend # <<>>
  /\ events' = Append(events,
       [kind |-> "string_data",
        name |-> [uri |-> "", localName |-> "", prefix |-> ""],
        str |-> dpend[1], isLocal |-> FALSE,
        elem |-> gstack[Len(gstack)].elem, ret |-> ret])
  /\ builder' = stringData(builder, dpend[1])
  /\ dpend' = <<>>
  /\ dres' = IF ret = "HandlerStop" THEN "HandlerStop" ELSE "Ok"
  /\ UNCHANGED <<gstack, dpos>>

\* the code points of the strings documents are made of
CodePoints ==
  [s \in {"", "1", "t"} |->
     CASE s = "" -> <<>> [] s = "1" -> <<49>> [] s = "t" -> <<116>>]

\* the encoder writes the next event of a document and the decoder reads
\* it: a value travels as its string value encoding under the name of its
\* attribute or, for a text, of the element that holds it, and the decoder
\* delivers the string it decodes
roundTrip(prod) ==
  IF prod.kind \in {"AT", "CH"}
  THEN LET top == gstack[Len(gstack)].elem
           holder == events[CHOOSE i \in 1..Len(events) :
                       events[i].kind = "start_element" /\ events[i].elem = top]
           q == IF prod.kind = "AT" THEN <<prod.name.uri, prod.name.localName>>
                ELSE <<holder.name.uri, holder.name.localName>>
           enc == encodeString(vtab, q, CodePoints[prod.str])
       IN /\ encodeValue(q, CodePoints[prod.str])
          /\ \E v \in DOMAIN CodePoints :
               /\ CodePoints[v] \in decodeString(vtab, q, enc)
               /\ parseNext([prod EXCEPT !.str = v], "Ok")
  ELSE parseNext(prod, "Ok") /\ UNCHANGED vvars

\* the body codec components at rest: empty value partitions for the two
\* names values occur under, the attribute y and the nameless element of a
\* text, a new handler, the decoder before the first production, main
\* before its first check
(***************************************************************************)
(* raw_fd_ostream: construction, close() and the destructor.  A stream is  *)
(* its FD and ShouldClose and, as history, the descriptors it has passed   *)
(* to SafelyCloseFileDescriptor.  assert() is the macro of <cassert>: a    *)
(* build with NDEBUG compiles it to nothing, any other build ends the      *)
(* process when its condition is false.  Which build runs shows at the     *)
(* first assertion that is false: NDEBUG is set once the process has run   *)
(* past one.                                                               *)
(***************************************************************************)
STDOUT_FILENO == 1

STDERR_FILENO == 2

NoStream == [state |-> "none", FD |-> -1, ShouldClose |-> FALSE, closes |-> <<>>]

\* raw_fd_ostream(fd, shouldClose)
raw_fd_ostream(fd, shouldClose) ==
  [state |-> "open", FD |-> fd,
   ShouldClose |-> IF fd < 0 THEN FALSE
                   ELSE IF fd <= STDERR_FILENO THEN FALSE
                   ELSE shouldClose,
   closes |-> <<>>]

\* the results getFD can have for a file name: stdout for "-", else the
\* descriptor the open call returns or -1 when it fails
getFD(Filename) ==
  IF Filename = "-" THEN {STDOUT_FILENO}
  ELSE {-1} \cup ((STDERR_FILENO + 1)..MaxFD)

\* raw_fd_ostream::close() past its assertion
close(S) ==
  [S EXCEPT !.ShouldClose = FALSE, !.closes = Append(@, S.FD), !.FD = -1]

\* ~raw_fd_ostream()
destroy(S) ==
  [S EXCEPT !.state = "destroyed",
            !.closes = IF S.FD >= 0 /\ S.ShouldClose THEN Append(@, S.FD)
                       ELSE @]

\* stream i is constructed from a descriptor
constructFD(i, fd, shouldClose) ==
  /\ ~fdstream.aborted
  /\ fdstream.s[i].state = "none"
  /\ fdstream' = [fdstream EXCEPT !.s[i] = raw_fd_ostream(fd, shouldClose)]

\* stream i is constructed from a file name
constructFile(i, Filename) ==
  /\ ~fdstream.aborted
  /\ fdstream.s[i].state = "none"
  /\ \E fd \in getFD(Filename) :
       fdstream' = [fdstream EXCEPT !.s[i] = raw_fd_ostream(fd, TRUE)]

\* close() is called on stream i
closeStream(i) ==
  /\ ~fdstream.aborted
  /\ fdstream.s[i].state = "open"
  /\ Len(fdstream.s[i].closes) < MaxCloses
  /\ IF fdstream.s[i].ShouldClose
     THEN fdstream' = [fdstream EXCEPT !.s[i] = close(@)]
     ELSE \/ /\ ~fdstream.NDEBUG
             /\ fdstream' = [fdstream EXCEPT !.aborted = TRUE]
          \/ fdstream' = [fdstream EXCEPT !.s[i] = close(@), !.NDEBUG = TRUE]

\* stream i is destroyed
destroyStream(i) ==
  /\ ~fdstream.aborted
  /\ fdstream.s[i].state = "open"
  /\ fdstream' = [fdstream EXCEPT !.s[i] = destroy(@)]

InitStreams ==
  fdstream = [NDEBUG |-> FALSE, aborted |-> FALSE,
              s |-> [i \in 1..NStreams |-> NoStream]]

(***************************************************************************)
(* MemorizeStatCalls over a file system that changes between calls.  A     *)
(* path is the sequence of its components, "/" first when it is absolute;  *)
(* a status is the kind of the entry and its modification time, time 0     *)
(* standing for no entry.                                                  *)
(***************************************************************************)
StatPaths == {<<"f">>, <<"d">>, <<"/", "d">>, <<"x">>}

NoStatus == [isDirectory |-> FALSE, mtime |-> 0]

\* sys::path::is_absolute
is_absolute(Path) == Len(Path) > 0 /\ Path[1] = "/"

\* FileSystemStatCache::Get without a cache: F tells whether the caller
\* passes a file to fill in, canOpen and canStat whether the open and the
\* fstat succeed on an entry that exists
Get(Path, isFile, F, FS, canOpen, canStat) ==
  LET isForDir == ~isFile
      Found == FS[Path] # NoStatus
      RetCode == IF isForDir \/ ~F
                 THEN IF Found THEN "" ELSE "no_such_file_or_directory"
                 ELSE IF ~Found \/ ~canOpen THEN "no_such_file_or_directory"
                 ELSE IF canStat THEN "" ELSE "io_error"
      Status == IF RetCode = "" THEN FS[Path] ELSE NoStatus
  IN IF RetCode # "" THEN [err |-> RetCode, Status |-> Status]
     ELSE IF Status.isDirectory # isForDir
     THEN [err |-> IF Status.isDirectory THEN "is_a_directory"
                   ELSE "not_a_directory",
           Status |-> Status]
     ELSE [err |-> "", Status |-> Status]

\* getStat caching every successful lookup
getStatCachingAll(Path, isFile, F, canOpen, canStat) ==
  LET r == Get(Path, isFile, F, statCache.FS, canOpen, canStat)
      pre == statCache.StatCalls
  IN statCache' =
       [statCache EXCEPT
          !.StatCalls = IF r.err # "" THEN @
                        ELSE [@ EXCEPT ![Path] = r.Status],
          !.succeeded = IF r.err # "" THEN @
                        ELSE @ \cup {[Path |-> Path, isFile |-> isFile,
                                      Status |-> r.Status]},
          !.last = [Path |-> Path, isFile |-> isFile, err |-> r.err,
                    pre |-> pre],
          !.n = @ + 1]

\* MemorizeStatCalls::getStat
getStat(Path, isFile, F, canOpen, canStat) ==
  LET r == Get(Path, isFile, F, statCache.FS, canOpen, canStat)
      pre == statCache.StatCalls
  IN statCache' =
       [statCache EXCEPT
          !.StatCalls = IF r.err # "" THEN @
                        ELSE IF ~r.Status.isDirectory \/ is_absolute(Path)
                        THEN [@ EXCEPT ![Path] = r.Status]
                        ELSE @,
          !.succeeded = IF r.err # "" THEN @
                        ELSE @ \cup {[Path |-> Path, isFile |-> isFile,
                                      Status |-> r.Status]},
          !.last = [Path |-> Path, isFile |-> isFile, err |-> r.err,
                    pre |-> pre],
          !.n = @ + 1]

\* the file system changes: an entry is removed, or written as a file or
\* as a directory at the next modification time
fsChange(Path, st) ==
  statCache' = [statCache EXCEPT !.FS[Path] = st, !.n = @ + 1]

InitStatCache ==
  statCache =
    [FS |-> [P \in StatPaths |->
               IF P = <<"x">> THEN NoStatus
               ELSE [isDirectory |-> P # <<"f">>, mtime |-> 1]],
     StatCalls |-> [P \in StatPaths |-> NoStatus],
     succeeded |-> {},
     last |-> [Path |-> <<"x">>, isFile |-> TRUE, err |-> "none",
               pre |-> [P \in StatPaths |-> NoStatus]],
     n |-> 0]

(***************************************************************************)
(* raw_ostream.  OutBufStart is where the buffer begins (Start tells       *)
(* whether it is non-null), size is OutBufEnd - OutBufStart and buf holds  *)
(* the bytes between OutBufStart and OutBufCur.  pref is what the          *)
(* subclass returns from preferred_buffer_size(), out the bytes handed to  *)
(* write_impl in call order, written every byte the caller has written.    *)
(***************************************************************************)
\* raw_ostream(unbuffered) of a subclass that prefers buffers of pref bytes
NewStream(unbuffered, pref) ==
  [Mode |-> IF unbuffered THEN "Unbuffered" ELSE "InternalBuffer",
   Start |-> FALSE, size |-> 0, buf |-> <<>>, pref |-> pref,
   out |-> <<>>, written |-> <<>>]

\* before the stream is constructed
NoOStream == [NewStream(FALSE, 0) EXCEPT !.Mode = "none"]

\* the stream is constructed
newStreamCall(unbuffered, pref) ==
  /\ ros.Mode = "none"
  /\ ros' = NewStream(unbuffered, pref)

\* write_impl(Ptr, Size) of the subclass
write_impl(S, bytes) == [S EXCEPT !.out = @ \o bytes]

\* flush_nonempty that leaves OutBufCur where it is
flush_nonemptyKeepingCur(S) == write_impl(S, S.buf)

\* raw_ostream::flush_nonempty
flush_nonempty(S) == write_impl([S EXCEPT !.buf = <<>>], S.buf)

\* raw_ostream::flush
flush(S) == IF S.buf # <<>> THEN flush_nonempty(S) ELSE S

\* raw_ostream::SetBufferAndMode
SetBufferAndMode(S, BufferStart, Size, Mode) ==
  [S EXCEPT !.Start = BufferStart, !.size = Size, !.buf = <<>>,
            !.Mode = Mode]

\* raw_ostream::SetBuffered: SetBufferSize(Size) or SetUnbuffered()
SetBuffered(S) ==
  IF S.pref # 0
  THEN SetBufferAndMode(flush(S), TRUE, S.pref, "InternalBuffer")
  ELSE SetBufferAndMode(flush(S), FALSE, 0, "Unbuffered")

\* raw_ostream::copy_to_buffer
copy_to_buffer(S, bytes) == [S EXCEPT !.buf = @ \o bytes]

\* raw_ostream::write(unsigned char C)
RECURSIVE write_char(_, _)
write_char(S, C) ==
  IF Len(S.buf) >= S.size
  THEN IF ~S.Start
       THEN IF S.Mode = "Unbuffered" THEN write_impl(S, <<C>>)
            ELSE write_char(SetBuffered(S), C)
       ELSE copy_to_buffer(flush_nonempty(S), <<C>>)
  ELSE copy_to_buffer(S, <<C>>)

\* raw_ostream::write(const char* Ptr, usize Size)
RECURSIVE write(_, _)
write(S, bytes) ==
  LET Size == Len(bytes)
      NumBytes == S.size - Len(S.buf)
      From(k) == SubSeq(bytes, k + 1, Size)
  IN IF NumBytes < Size
     THEN IF ~S.Start
          THEN IF S.Mode = "Unbuffered" THEN write_impl(S, bytes)
               ELSE write(SetBuffered(S), bytes)
          ELSE IF S.buf = <<>>
          THEN LET BytesToWrite == Size - (Size % NumBytes)
                   BytesRemaining == Size - BytesToWrite
                   T == write_impl(S, SubSeq(bytes, 1, BytesToWrite))
               IN IF BytesRemaining > T.size - Len(T.buf)
                  THEN write(T, From(BytesToWrite))
                  ELSE copy_to_buffer(T, From(BytesToWrite))
          ELSE write(flush_nonempty(
                       copy_to_buffer(S, SubSeq(bytes, 1, NumBytes))),
                     From(NumBytes))
     ELSE copy_to_buffer(S, bytes)

\* the caller writes one byte
writeCharCall(C) ==
  /\ ros.Mode # "none"
  /\ Len(ros.written) < MaxBytes
  /\ ros' = [write_char(ros, C) EXCEPT !.written = @ \o <<C>>]

\* the caller writes a run of bytes
writeCall(bytes) ==
  /\ ros.Mode # "none"
  /\ Len(ros.written) + Len(bytes) <= MaxBytes
  /\ ros' = [write(ros, bytes) EXCEPT !.written = @ \o bytes]

\* the caller flushes
flushCall == ros.Mode # "none" /\ ros' = flush(ros)

(***************************************************************************)
(* ParseXMLFromMemoryBuffer on several threads, each with its own buffer.  *)
(* xml::use_exceptions_anyway is a plain bool of the process; ScopedSave   *)
(* reads it, stores the new value and stores the value read back when the  *)
(* call returns.  Each read and each store is a step of its own.           *)
(***************************************************************************)
\* bool xml::use_exceptions_anyway = false, no call begun
InitXML ==
  xml = [use_exceptions_anyway |-> FALSE, exited |-> FALSE,
         t |-> [i \in 1..NThreads |->
                  [at |-> "idle", Saved |-> FALSE, unset |-> FALSE,
                   result |-> "none"]]]

\* thread i is past `at` and now at `to`
Moved(i, to) == [xml EXCEPT !.t[i].at = to]

\* ScopedSave S(xml::use_exceptions_anyway, true): the old value is read
scopedSaveRead(i) ==
  /\ ~xml.exited /\ xml.t[i].at = "idle"
  /\ xml' = [Moved(i, "saved") EXCEPT
               !.t[i].Saved = xml.use_exceptions_anyway]

\* ScopedSave S(xml::use_exceptions_anyway, true): the new value is stored
scopedSaveStore(i) ==
  /\ ~xml.exited /\ xml.t[i].at = "saved"
  /\ xml' = [Moved(i, "parsing") EXCEPT !.use_exceptions_anyway = TRUE]

\* xml::parse_error_handler: throws when the flag is set, else ends the
\* process
parse_error_handler(i) ==
  IF xml.use_exceptions_anyway
  THEN [Moved(i, "parsed") EXCEPT !.t[i].result = "error"]
  ELSE [Moved(i, "parsed") EXCEPT !.t[i].result = "exit", !.exited = TRUE]

\* Doc->parse<ParseRules>(MB.getBufferStart()) on a document that is well
\* formed or not; the flag is looked at while the call runs
parse(i, wellFormed) ==
  /\ ~xml.exited /\ xml.t[i].at = "parsing"
  /\ LET seen == [xml EXCEPT !.t[i].unset =
                     @ \/ ~xml.use_exceptions_anyway]
     IN xml' = IF wellFormed
               THEN [seen EXCEPT !.t[i].at = "parsed",
                                 !.t[i].result = "document"]
               ELSE [parse_error_handler(i) EXCEPT
                       !.t[i].unset = seen.t[i].unset]

\* ~ScopedSave: the value read is stored back and the call returns
scopedSaveRestore(i) ==
  /\ ~xml.exited /\ xml.t[i].at = "parsed"
  /\ xml' = [Moved(i, "returned") EXCEPT
               !.use_exceptions_anyway = xml.t[i].Saved]

InitCodecState ==
  /\ InitStreams
  /\ InitStatCache
  /\ InitXML
  /\ ros = NoOStream
  /\ vtab = [Local |-> [q \in {<<"", "y">>, <<"", "">>} |-> <<>>],
             Global |-> <<>>]
  /\ vlast = [op |-> "none", q |-> <<"", "y">>, str |-> <<>>,
              enc |-> [branch |-> "empty", prefix |-> 1, payload |-> <<>>],
              decoded |-> {<<>>}, pre |-> vtab]
  /\ builder = NewBuilder
  /\ gstack = <<[state |-> "Document", elem |-> 0]>>
  /\ dpos = 0
  /\ dres = "Ok"
  /\ dpend = <<>>
  /\ events = <<>>
  /\ fcall = [fn |-> "none", T |-> [signed |-> FALSE, bits |-> 0], x |-> 0,
              ok |-> TRUE, res |-> 0, step |-> 0]

InitCodec == InitCodecState /\ fills = <<>>

(***************************************************************************)
(* The writer machine: any sequence of writeNextBit and writeNBits calls.  *)
(***************************************************************************)
\* the n low bits of the bit pattern 1011010011010011 that written values are cut from
Pat(n) == 46291 % Pow2(n)

\* bit counts the writer machine passes to writeNBits
NBitsSet == {0, 1, 7, 8, 9, MaxN}

\* values written with n bits: the pattern, its complement with a bit above
\* the n-bit field set
ValuesOf(n) ==
  {Pat(n), Pow2(n) + (Pow2(n) - 1 - Pat(n))}

Init == InitStream /\ InitNoReader /\ InitDecoder /\ InitTable /\ InitCodec /\ pc = "write"

Next ==
  \/ \E b \in {0, 1} : writeNextBit(b) /\ UNCHANGED <<rvars, pc, hvars, svars, cvars>>
  \/ \E n \in NBitsSet : \E v \in ValuesOf(n) : writeNBits(n, v) /\ UNCHANGED <<rvars, pc, hvars, svars, cvars>>

Spec == Init /\ [][Next]_vars

(***************************************************************************)
(* The reader machine: any sequence of reader calls on an input that the   *)
(* caller supplies byte by byte, and main's checks on Data.                *)
(***************************************************************************)
InitR ==
  /\ bufLen = 1 /\ buf = [i \in 0..0 |-> 0] /\ bufferIndx = 0 /\ bitPointer = 0
  /\ hasSink = FALSE /\ sink = <<>> /\ oob = FALSE /\ last = NoCall /\ ops = 0
  /\ InitReader
  /\ InitDecoder /\ InitTable /\ InitCodec
  /\ pc = "read"

NextR ==
  \/ \E op \in {"readBits", "peekBits"} : \E n \in 0..MaxRead :
        readerCall(op, n) /\ UNCHANGED <<wvars, pc, hvars, svars, cvars>>
  \/ \E op \in {"readBit", "peekBit"} : readerCall(op, 1) /\ UNCHANGED <<wvars, pc, hvars, svars, cvars>>
  \/ supplyByte /\ UNCHANGED <<wvars, pc, hvars, svars, cvars>>
  \/ mainCheck /\ UNCHANGED <<wvars, pc, hvars, svars, cvars>>

SpecR == InitR /\ [][NextR]_vars

(***************************************************************************)
(* Write then read: a lead of k bits puts the writer at any bit offset of *)
(* byte 0, one call writes the value, an InBitStream is constructed over   *)
(* the writer's buffer, skips to the position the value was written at and *)
(* reads it back.                                                          *)
(***************************************************************************)
\* the buffer starts all zeros or all ones
InitRT ==
  /\ InitStream /\ buf[0] \in {0, 255} /\ InitNoReader
  /\ InitDecoder /\ InitTable /\ InitCodec /\ pc = "lead"

\* bit position the last writer call started storing at
StartPos == 8 * last.start.idx + last.start.bp

\* bit position of the writer
WritePos == 8 * bufferIndx + bitPointer

\* InBitStream BS(buf)
openReader ==
  /\ rfull' = [i \in 1..bufLen |-> buf[i - 1]]
  /\ rdata' = [i \in 1..bufLen |-> buf[i - 1]]
  /\ rpos' = 0
  /\ rlast' = NoRead
  /\ tstep' = -1

LeadBits == 0..7

\* every n-bit value, and one value with a bit above the n-bit field set
AllValuesOf(n) == (0..(Pow2(n) - 1)) \cup {Pow2(n) + Pat(n)}

NextRT ==
  \/ /\ pc = "lead"
     /\ \E k \in LeadBits : writeNBits(k, Pat(k))
     /\ pc' = "value"
     /\ UNCHANGED <<rvars, hvars, svars, cvars>>
  \/ /\ pc = "value"
     /\ \E n \in 0..MaxV : \E v \in AllValuesOf(n) : writeNBits(n, v)
     /\ pc' = "open"
     /\ UNCHANGED <<rvars, hvars, svars, cvars>>
  \/ /\ pc = "value"
     /\ \E b \in {0, 1} : writeNextBit(b)
     /\ pc' = "open"
     /\ UNCHANGED <<rvars, hvars, svars, cvars>>
  \/ /\ pc = "open"
     /\ last.err = "EXIP_OK"
     /\ openReader
     /\ pc' = "skip"
     /\ UNCHANGED <<wvars, hvars, svars, cvars>>
  \/ /\ pc = "skip"
     /\ readerCall("readBits", StartPos)
     /\ pc' = "read"
     /\ UNCHANGED <<wvars, hvars, svars, cvars>>
  \/ /\ pc = "read"
     /\ IF last.op = "writeNextBit"
        THEN readerCall("readBit", 1)
        ELSE readerCall("readBits", last.n)
     /\ pc' = "done"
     /\ UNCHANGED <<wvars, hvars, svars, cvars>>

SpecRT == InitRT /\ [][NextRT]_vars

(***************************************************************************)
(* The header machine: decodeHeader calls on one ExiDecoder, the first of  *)
(* them the one made by ExiDecoder(Buffer, OS).                            *)
(***************************************************************************)
\* a stream and a reader that take no part
IdleStreams ==
  /\ bufLen = 1 /\ buf = [i \in 0..0 |-> 0] /\ bufferIndx = 0 /\ bitPointer = 0
  /\ hasSink = FALSE /\ sink = <<>> /\ oob = FALSE /\ last = NoCall /\ ops = 0
  /\ InitNoReader

\* what follows the cookie, as bits:
\*   10 0 0000 0000     version 1, no options
\*   10 0 1000 0000     preview version
\*   10 0 0000 1111 0010    groups 15, 2: version 18
\*   10 0 0000 1111 1111 1  groups 15, 15 and the end of the input
\*   10 0 0000 0011     group 3: version 4
\*   11.., 00.., 01..   other distinguishing bits
\*   10 0 0000 0        the input ends inside the first group
PlainTails ==
  {<<128, 0>>, <<144, 0>>, <<129, 228>>, <<129, 255>>, <<128, 56>>,
   <<192, 0>>, <<0, 0>>, <<64, 0>>, <<128>>, <<>>}

\*   10 1 0000 0000     version 1, options present
OptionTails == {<<160, 0>>}

HeaderTails == PlainTails \cup OptionTails

\* inputs with and without the cookie, "$EX" alone and "$EXJ" before a header
HeaderInputs ==
  HeaderTails \cup {<<36, 69, 88, 73>> \o t : t \in HeaderTails}
              \cup {<<36, 69, 88>>, <<36, 69, 88, 74, 128, 0>>}

\* the option elements of an options document
OptElts ==
  {"byte", "pre-compress", "compression", "strict", "dtd", "prefixes",
   "comments", "pis", "selfContained", "lexicalValues",
   "datatypeRepresentationMap", "schemaId"}

\* options documents: "alignment" holds one of "byte" and "pre-compress"
OptionDocs ==
  {d \in SUBSET OptElts :
     Cardinality(d) <= MaxOptElts /\ ~({"byte", "pre-compress"} \subseteq d)}

\* the options documents that can follow the header bits of an input
DocsOf(bytes) ==
  IF \E t \in OptionTails : bytes = t \/ bytes = <<36, 69, 88, 73>> \o t
  THEN OptionDocs
  ELSE {{}}

InitH == IdleStreams /\ InitDecoder /\ InitTable /\ InitCodec /\ pc = "construct"

\* ExiDecoder(Buffer, OS) makes the first call, its user one more
NextH ==
  \/ /\ pc = "construct"
     /\ \E bytes \in HeaderInputs : \E doc \in DocsOf(bytes) : decodeHeader(bytes, doc)
     /\ pc' = "constructed"
     /\ UNCHANGED <<wvars, rvars, svars, cvars>>
  \/ /\ pc = "constructed"
     /\ \E bytes \in HeaderInputs : \E doc \in DocsOf(bytes) : decodeHeader(bytes, doc)
     /\ pc' = "decoded"
     /\ UNCHANGED <<wvars, rvars, svars, cvars>>

SpecH == InitH /\ [][NextH]_vars

(***************************************************************************)
(* The string table machine: setup, then any sequence of add operations    *)
(* and accessor calls.                                                     *)
(***************************************************************************)
\* values handed to addValue; URIs, prefixes and local names are added as
\* "urn:x", "p" and "a"
NewValues == {"v1", "v2", "v3"}

\* URIs the add operations are called with: the empty URI, the XML
\* namespace and the newest URI
TargetURIs ==
  {u \in {0, 1, Len(tbl.URIMap) - 1} : u >= 0 /\ u < Len(tbl.URIMap)}

\* local names values are added to: the first two of the URI
TargetLocals == {0, 1}

\* identifiers the accessors are called with: the first, the last, and the
\* two past the end
QueryURIs ==
  {u \in {0, Len(tbl.URIMap) - 1, Len(tbl.URIMap), Len(tbl.URIMap) + 1} : u >= 0}

QueryLocals(URI) ==
  IF URI < Len(tbl.LNMap)
  THEN {l \in {0, Len(tbl.LNMap[URI + 1]) - 1, Len(tbl.LNMap[URI + 1])} : l >= 0}
  ELSE {0}

InitST == IdleStreams /\ InitDecoder /\ InitTable /\ InitCodec /\ pc = "table"

NextST ==
  \/ \E Opts \in TableOptions : setup(Opts) /\ UNCHANGED <<wvars, rvars, pc, hvars, cvars>>
  \/ /\ sops < MaxTblOps
     /\ UNCHANGED <<wvars, rvars, pc, hvars, cvars>>
     /\ \/ \E p \in {<<>>, <<"p">>} : addURI("urn:x", p)
        \/ \E u \in TargetURIs : addPrefix(u, "p")
        \/ \E u \in TargetURIs : addLocalName(u, "a")
        \/ \E v \in NewValues : addValue(v)
        \/ \E u \in TargetURIs : \E l \in TargetLocals : \E v \in NewValues :
             addValueLocal(u, l, v)
        \/ \E u \in QueryURIs : Query("getURI", u, 0, getURI(tbl, u))
        \/ \E u \in QueryURIs : \E l \in QueryLocals(u) :
             Query("getLocalName", u, l, getLocalName(tbl, u, l))
        \/ Query("getURILog", 0, 0, getURILog(tbl))
        \/ \E u \in QueryURIs :
             Query("getLocalNameLog", u, 0, getLocalNameLog(tbl, u))
        \/ \E u \in TargetURIs : \E l \in TargetLocals :
             /\ l < Len(tbl.LNMap[u + 1])
             /\ Query("bits", u, l, {Res("ok", "", bits(tbl.LNMap[u + 1][l + 1]))})

SpecST == InitST /\ [][NextST]_vars

(***************************************************************************)
(* The string value machine: any sequence of values encoded under two      *)
(* names, each decoded from the table state it was encoded in.             *)
(***************************************************************************)
\* the strings encoded: the empty string, "a", "b" and "ab"
ValueStrings == {<<>>, <<97>>, <<98>>, <<97, 98>>}

InitSV == IdleStreams /\ InitDecoder /\ InitTable /\ InitCodec /\ pc = "value"

NextSV ==
  \E q \in DOMAIN vtab.Local : \E s \in ValueStrings :
    encodeValue(q, s) /\ UNCHANGED <<wvars, rvars, pc, hvars, svars, evars, fcall, lvars>>

SpecSV == InitSV /\ [][NextSV]_vars

(***************************************************************************)
(* The event machine: the decoder parses a body and delivers its events to *)
(* an XMLBuilder whose callbacks return Ok or HandlerStop.  The streams    *)
(* are those the handler is written for: a text is carried by an element   *)
(* with the empty name, which startElement turns into a data node and      *)
(* stringData stores the text in; prefixes arrive in namespace             *)
(* declarations, not in the names of start tags.                           *)
(***************************************************************************)
\* the productions streams are made of; "none" is a code past the last
\* production of the current grammar
StreamProductions ==
  LET P(kind, uri, localName, prefix, str, isLocal) ==
        [kind |-> kind,
         name |-> [uri |-> uri, localName |-> localName, prefix |-> prefix],
         str |-> str, isLocal |-> isLocal]
  IN {P("SD", "", "", "", "", FALSE), P("ED", "", "", "", "", FALSE),
      P("EE", "", "", "", "", FALSE), P("none", "", "", "", "", FALSE),
      P("SE", "", "a", "", "", FALSE), P("SE", "urn:x", "a", "", "", FALSE),
      P("SE", "", "", "", "", FALSE), P("CH", "", "", "", "t", FALSE),
      P("AT", "", "y", "", "1", FALSE), P("AT", "", "y", "", "t", FALSE),
      P("AT", "", "y", "", "", FALSE),
      P("NS", "urn:x", "", "p", "", TRUE), P("NS", "urn:y", "", "", "", FALSE)}

\* the next production of a stream: one of the current grammar or an
\* invalid code; inside a data node the text and then the end tag, a data
\* node nowhere but inside an element, one declaration of its own prefix
\* per element, no two attributes of one name
NextProductions ==
  LET top == gstack[Len(gstack)]
      inData == TypeOfNode(builder) = "node_data"
  IN {prod \in StreamProductions :
        /\ prod.kind \in Productions(top.state) \cup {"none"}
        /\ inData => prod.kind = (IF builder.nodes[builder.node].value = ""
                                  THEN "CH" ELSE "EE")
        /\ ~inData => prod.kind # "CH"
        /\ (prod.kind = "SE" /\ prod.name.localName = "") => top.elem # 0
        /\ (prod.kind = "NS" /\ prod.isLocal)
             => Len(builder.nodes[builder.node].name) = 1
        /\ prod.kind = "AT"
             => \A i \in 1..Len(builder.nodes[builder.node].attrs) :
                  builder.nodes[builder.node].attrs[i].name
                    # <<prod.name.localName>>}

InitEV == IdleStreams /\ InitDecoder /\ InitTable /\ InitCodec /\ pc = "parse"

NextEV ==
  \/ /\ Len(events) < MaxEvents
     /\ gstack # <<>>
     /\ \E prod \in NextProductions : \E ret \in {"Ok", "HandlerStop"} :
          parseNext(prod, ret)
     /\ UNCHANGED <<wvars, rvars, pc, hvars, svars, vvars, fcall, lvars>>
  \/ /\ \E ret \in {"Ok", "HandlerStop"} : deliverValue(ret)
     /\ UNCHANGED <<wvars, rvars, pc, hvars, svars, vvars, fcall, lvars>>

SpecEV == InitEV /\ [][NextEV]_vars

(***************************************************************************)
(* The round trip machine: test_file writes a document as EXI and reads it *)
(* back into an XMLBuilder, event by event.                                *)
(***************************************************************************)
InitXD == IdleStreams /\ InitDecoder /\ InitTable /\ InitCodec /\ pc = "test_file"

NextXD ==
  \/ /\ Len(events) < MaxEvents
     /\ gstack # <<>>
     /\ \E prod \in NextProductions : prod.kind # "none" /\ roundTrip(prod)
     /\ UNCHANGED <<wvars, rvars, pc, hvars, svars, fcall, lvars>>
  \/ /\ deliverValue("Ok")
     /\ UNCHANGED <<wvars, rvars, pc, hvars, svars, vvars, fcall, lvars>>

SpecXD == InitXD /\ [][NextXD]_vars

(***************************************************************************)
(* The function machine: one call of LocalName::bytes() or of a checked    *)
(* cast on any arguments, or main running its checks of the casts.         *)
(***************************************************************************)
InitFN == IdleStreams /\ InitDecoder /\ InitTable /\ InitCodec /\ pc = "call"

NextFN ==
  \/ /\ fcall.fn = "none"
     /\ \E n \in 0..MaxLocalValues : bytesCall(n)
     /\ UNCHANGED <<wvars, rvars, pc, hvars, svars, vvars, evars, lvars>>
  \/ /\ fcall.fn = "none"
     /\ \E fn \in {"CheckIntCast", "IntCastOrZero"} :
          \E T \in [signed : BOOLEAN, bits : 1..MaxBits] :
            \E x \in (0 - Pow2(MaxBits))..Pow2(MaxBits) : castCall(fn, T, x)
     /\ UNCHANGED <<wvars, rvars, pc, hvars, svars, vvars, evars, lvars>>
  \/ /\ fcall.fn = "none"
     /\ \E T \in [signed : BOOLEAN, bits : 1..MaxBits] :
          \E x \in 0..(Pow2(MaxBits) - 1) : fromBitsCall(T, x)
     /\ UNCHANGED <<wvars, rvars, pc, hvars, svars, vvars, evars, lvars>>
  \/ /\ fcall.fn = "none"
     /\ \E Bits \in 1..MaxBits : testBits(Bits)
     /\ UNCHANGED <<wvars, rvars, pc, hvars, svars, vvars, evars, lvars>>
  \/ /\ fcall.fn = "none" \/ fcall.step > 0
     /\ mainIntCheck
     /\ UNCHANGED <<wvars, rvars, pc, hvars, svars, vvars, evars, lvars>>

SpecFN == InitFN /\ [][NextFN]_vars

(***************************************************************************)
(* The descriptor stream machine: the process makes raw_fd_ostream        *)
(* objects from descriptors and from file names, calls close() on them     *)
(* and destroys them.                                                      *)
(***************************************************************************)
InitFD == IdleStreams /\ InitDecoder /\ InitTable /\ InitCodec /\ pc = "streams"

NextFD ==
  \/ /\ \E i \in 1..NStreams : \E fd \in -1..MaxFD :
          \E shouldClose \in BOOLEAN : constructFD(i, fd, shouldClose)
     /\ UNCHANGED <<wvars, rvars, pc, hvars, svars, vvars, evars, fcall,
                    statCache, fills, ros, xml>>
  \/ /\ \E i \in 1..NStreams : \E Filename \in {"-", "out.exi"} :
          constructFile(i, Filename)
     /\ UNCHANGED <<wvars, rvars, pc, hvars, svars, vvars, evars, fcall,
                    statCache, fills, ros, xml>>
  \/ /\ \E i \in 1..NStreams : closeStream(i)
     /\ UNCHANGED <<wvars, rvars, pc, hvars, svars, vvars, evars, fcall,
                    statCache, fills, ros, xml>>
  \/ /\ \E i \in 1..NStreams : destroyStream(i)
     /\ UNCHANGED <<wvars, rvars, pc, hvars, svars, vvars, evars, fcall,
                    statCache, fills, ros, xml>>

SpecFD == InitFD /\ [][NextFD]_vars

(***************************************************************************)
(* The stat cache machine: getStat calls on any path, for a file or for a  *)
(* directory, with and without a file to fill in, while the file system    *)
(* changes.                                                                *)
(***************************************************************************)
InitSC == IdleStreams /\ InitDecoder /\ InitTable /\ InitCodec /\ pc = "stat"

NextSC ==
  \/ /\ statCache.n < MaxStatOps
     /\ \E Path \in StatPaths : \E isFile, F, canOpen, canStat \in BOOLEAN :
          /\ (canOpen /\ canStat) \/ (isFile /\ F /\ (canOpen \/ ~canStat))
          /\ getStat(Path, isFile, F, canOpen, canStat)
     /\ UNCHANGED <<wvars, rvars, pc, hvars, svars, vvars, evars, fcall,
                    fdstream, fills, ros, xml>>
  \/ /\ statCache.n < MaxStatOps
     /\ \E Path \in StatPaths :
          \E st \in {NoStatus} \cup [isDirectory : BOOLEAN, mtime : {2}] :
            fsChange(Path, st)
     /\ UNCHANGED <<wvars, rvars, pc, hvars, svars, vvars, evars, fcall,
                    fdstream, fills, ros, xml>>

SpecSC == InitSC /\ [][NextSC]_vars

(***************************************************************************)
(* The bit writer machine: writeNextBit calls alone on a stream with a     *)
(* flush sink.  The stream starts at any position earlier writeNextBit     *)
(* calls have brought it to; a failed call is retried by the next call.    *)
(***************************************************************************)
\* the bytes of the whole buffer b
BufferBytes(b) == [i \in 1..bufLen |-> b[i - 1]]

InitNB ==
  /\ bufLen \in 1..MaxBufLen
  /\ \E f \in MemBytes : buf = [i \in 0..(bufLen - 1) |-> f]
  /\ bufferIndx \in 0..bufLen
  /\ bitPointer \in 0..7
  /\ bufferIndx = bufLen => bitPointer = 0
  /\ hasSink = TRUE
  /\ sink = <<>> /\ oob = FALSE /\ ops = 0
  /\ last = [NoCall EXCEPT !.pre.idx = bufferIndx, !.pre.bp = bitPointer,
                           !.start.idx = bufferIndx, !.start.bp = bitPointer]
  /\ InitNoReader /\ InitDecoder /\ InitTable /\ InitCodecState
  /\ fills = IF bufferIndx = bufLen THEN BufferBytes(buf) ELSE <<>>
  /\ pc = "bits"

NextNB ==
  \E b \in {0, 1} :
    /\ writeNextBit(b)
    /\ fills' = IF bufferIndx' = bufLen /\ last'.err = "EXIP_OK"
                THEN fills \o BufferBytes(buf')
                ELSE fills
    /\ UNCHANGED <<rvars, pc, hvars, svars, vvars, evars, fcall, fdstream,
                   statCache, ros, xml>>

SpecNB == InitNB /\ [][NextNB]_vars

(***************************************************************************)
(* The output stream machine: write(char), write(ptr, size) and flush in   *)
(* any order on a raw_ostream of any mode and preferred buffer size.  The  *)
(* bytes written are numbered so that no two runs look alike.              *)
(***************************************************************************)
InitOS == IdleStreams /\ InitDecoder /\ InitTable /\ InitCodec /\ pc = "ostream"

\* the k bytes the caller writes next
NextBytes(k) == [i \in 1..k |-> Len(ros.written) + i]

NextOS ==
  \/ /\ \E unbuffered \in BOOLEAN : \E pref \in 0..MaxChunk :
          newStreamCall(unbuffered, pref)
     /\ UNCHANGED <<wvars, rvars, pc, hvars, svars, vvars, evars, fcall,
                    fdstream, statCache, fills, xml>>
  \/ /\ writeCharCall(Len(ros.written) + 1)
     /\ UNCHANGED <<wvars, rvars, pc, hvars, svars, vvars, evars, fcall,
                    fdstream, statCache, fills, xml>>
  \/ /\ \E k \in 0..(MaxChunk + 2) : writeCall(NextBytes(k))
     /\ UNCHANGED <<wvars, rvars, pc, hvars, svars, vvars, evars, fcall,
                    fdstream, statCache, fills, xml>>
  \/ /\ flushCall
     /\ UNCHANGED <<wvars, rvars, pc, hvars, svars, vvars, evars, fcall,
                    fdstream, statCache, fills, xml>>

SpecOS == InitOS /\ [][NextOS]_vars

(***************************************************************************)
(* The XML parse machine: every thread calls ParseXMLFromMemoryBuffer      *)
(* once, on a buffer of its own, and the steps of the calls interleave.    *)
(***************************************************************************)
InitXP == IdleStreams /\ InitDecoder /\ InitTable /\ InitCodec /\ pc = "xml"

NextXP ==
  \/ /\ \E i \in 1..NThreads : scopedSaveRead(i)
     /\ UNCHANGED <<wvars, rvars, pc, hvars, svars, vvars, evars, fcall,
                    fdstream, statCache, fills, ros>>
  \/ /\ \E i \in 1..NThreads : scopedSaveStore(i)
     /\ UNCHANGED <<wvars, rvars, pc, hvars, svars, vvars, evars, fcall,
                    fdstream, statCache, fills, ros>>
  \/ /\ \E i \in 1..NThreads : \E wellFormed \in BOOLEAN :
          parse(i, wellFormed)
     /\ UNCHANGED <<wvars, rvars, pc, hvars, svars, vvars, evars, fcall,
                    fdstream, statCache, fills, ros>>
  \/ /\ \E i \in 1..NThreads : scopedSaveRestore(i)
     /\ UNCHANGED <<wvars, rvars, pc, hvars, svars, vvars, evars, fcall,
                    fdstream, statCache, fills, ros>>

SpecXP == InitXP /\ [][NextXP]_vars

(***************************************************************************)
(* Properties.                                                             *)
(***************************************************************************)
\* bit at stream position p of buffer b (position 0 = most significant bit
\* of byte 0)
BufBit(b, p) == BitOf(b[p \div 8], 7 - (p % 8))

\* the last writer call was a successful writeNBits
WroteNBits == last.op = "writeNBits" /\ last.err = "EXIP_OK"

C2_BigEndianStore ==
  WroteNBits =>
    \A i \in 0..(last.n - 1) :
      (StartPos + i < 8 * bufLen) =>
         BufBit(buf, StartPos + i) = BitOf(last.v, last.n - 1 - i)

\* C2 witness: a span that crosses a byte boundary, of a value with a bit
\* set above its n-bit field, first byte holding the high bits
C2_Witness ==
  /\ WroteNBits /\ ~oob
  /\ last.start.bp > 0 /\ last.start.bp + last.n > 8
  /\ last.v >= Pow2(last.n)
  /\ BufBit(buf, StartPos) = 1 /\ BitOf(last.v, last.n - 1) = 1
  /\ BufBit(buf, StartPos + 1) = 0 /\ BitOf(last.v, last.n - 2) = 0

\* value of the n bits of data from position pos on, first bit the highest
RECURSIVE SpanValue(_, _, _)
SpanValue(data, pos, n) ==
  IF n = 0 THEN 0
  ELSE 2 * SpanValue(data, pos, n - 1)
         + BitOf(data[((pos + n - 1) \div 8) + 1], 7 - ((pos + n - 1) % 8))

\* C3: a successful readBit / readBits(n) returns the next n bits of the
\* buffer in stream order as a big-endian value (the first byte of a span
\* gives the high bits) and advances the bit position by exactly n, from
\* any bit offset; the reads main asserts on return the asserted values.
C3_ReadBigEndian ==
  /\ (rlast.op \in {"readBit", "readBits"} /\ rlast.err = "Ok") =>
        /\ rlast.val = SpanValue(rdata, rlast.pos, rlast.n)
        /\ rpos = rlast.pos + rlast.n
  /\ (rlast.test > 0 /\ rlast.op \in {"readBit", "readBits"}) =>
        /\ rlast.err = "Ok"
        /\ rlast.val = BitStreamChecks[rlast.test][3]

\* C3 witness: main's 12-bit read starting at bit 12, over two byte
\* boundaries
C3_Witness ==
  /\ rlast.test = Len(BitStreamChecks) /\ rlast.op = "readBits"
  /\ rlast.n = 12 /\ rlast.pos = 12 /\ rlast.err = "Ok" /\ rpos = 24
  /\ rlast.val = SpanValue(Data, 12, 12)

\* C5: a read of n bits fails with BufferEndReached exactly when fewer than
\* n bits remain in the supplied bytes, and consumes nothing; re-invoked
\* from the same position after the caller supplied the missing bytes it
\* succeeds with the value a read over the complete input yields.
C5_RetryAfterBufferEnd ==
  /\ rlast.op \in ReaderOps =>
        (rlast.err = "BufferEndReached" <=> 8 * rlast.avail - rlast.pos < rlast.n)
  /\ rlast.err = "BufferEndReached" => rpos = rlast.pos
  /\ (rlast.retry /\ rlast.err = "Ok") =>
        rlast.val = SpanValue(rfull, rlast.pos, rlast.n)

\* C5 witness: a 16-bit read that failed with 1 byte supplied has succeeded
\* with 2
C5_Witness ==
  /\ rlast.op = "readBits" /\ rlast.n = 16 /\ rlast.pos = 0
  /\ rlast.retry /\ rlast.err = "Ok" /\ rlast.avail = 2 /\ rpos = 16
  /\ rlast.val = 256 * rfull[1] + rfull[2]

\* C10: peekBit / peekBits(n) leave the bit position unchanged and return
\* the value the next readBit / readBits(n) returns, at any position; a
\* freshly constructed reader has bit position 0; main's checks up to the
\* second peekBits hold.
C10_PeekIsNextRead ==
  /\ rlast.op = "none" => rpos = 0
  /\ rlast.op \in {"peekBit", "peekBits"} =>
        /\ rpos = rlast.pos
        /\ rlast.err = "Ok" => rlast.val = SpanValue(rdata, rpos, rlast.n)
  /\ (rlast.peeked >= 0 /\ rlast.err = "Ok") => rlast.val = rlast.peeked
  /\ rlast.test \in 1..7 =>
        rlast.err = "Ok" /\ rlast.val = BitStreamChecks[rlast.test][3]

\* C10 witness: main's readBits(4) right after peekBits<4>() at bit 8, both
\* 1011
C10_Witness ==
  /\ rlast.test = 7 /\ rlast.op = "readBits" /\ rlast.pos = 8
  /\ rlast.peeked = 11 /\ rlast.val = 11 /\ rpos = 12

\* the last writer call left buffer, position and sink as they were
Untouched ==
  /\ buf = last.pre.buf /\ bufferIndx = last.pre.idx
  /\ bitPointer = last.pre.bp /\ sink = last.pre.sink

\* number of bytes the sink accepted during the last writer call
Accepted == Len(sink) - Len(last.pre.sink)

\* C4: writeNextBit on a full buffer (byte index >= bufLen): without a sink
\* it returns BufferEndReached; with a sink that accepts all bufLen bytes
\* the position is reset to 0:0 and the bit is written at bit 0 of byte 0;
\* with a sink that accepts fewer it returns BufferEndReached.
C4_NextBitOnFullBuffer ==
  (last.op = "writeNextBit" /\ last.pre.idx >= bufLen) =>
     /\ ~hasSink => (last.err = "EXIP_BUFFER_END_REACHED" /\ Untouched)
     /\ (hasSink /\ Accepted = bufLen) =>
          /\ last.err = "EXIP_OK"
          /\ sink = last.pre.sink \o [i \in 1..bufLen |-> last.pre.buf[i - 1]]
          /\ last.start.idx = 0 /\ last.start.bp = 0
          /\ bufferIndx = 0 /\ bitPointer = 1
          /\ BufBit(buf, 0) = last.v
          /\ \A p \in 1..(8 * bufLen - 1) : BufBit(buf, p) = BufBit(last.pre.buf, p)
     /\ (hasSink /\ Accepted < bufLen) =>
          /\ last.err = "EXIP_BUFFER_END_REACHED"
          /\ buf = last.pre.buf /\ bufferIndx = last.pre.idx /\ bitPointer = last.pre.bp

\* C4 witness: a full buffer was flushed whole and the bit written at 0:0
C4_Witness ==
  /\ last.op = "writeNextBit" /\ last.pre.idx >= bufLen /\ ~oob
  /\ hasSink /\ Accepted = bufLen /\ last.err = "EXIP_OK"
  /\ bufferIndx = 0 /\ bitPointer = 1

\* C6: after any sequence of writeNextBit / writeNBits calls the byte index
\* is within 0..bufLen, the bit pointer within 0..7 and no byte outside
\* buf[0 .. bufLen-1] has been written.
C6_WriterInBounds ==
  /\ bufferIndx \in 0..bufLen
  /\ bitPointer \in 0..7
  /\ ~oob

\* C7 as claimed: a successful write of n bits at position pos changes no
\* bit of the buffer outside pos .. pos+n-1.
C7_OnlySpanModified ==
  (last.op # "none" /\ last.err = "EXIP_OK") =>
    \A p \in 0..(8 * bufLen - 1) :
      (p < StartPos \/ p >= StartPos + last.n) =>
         BufBit(buf, p) = BufBit(last.start.buf, p)

\* C7 amended: a successful write of n bits at position pos (the position
\* and buffer as a flush made by the call left them) leaves every bit before
\* pos and every byte after the one holding bit pos+n-1 unchanged;
\* writeNextBit changes no other bit, writeNBits with n >= 1 sets the bits
\* that follow pos+n-1 in that byte to 0.
C7_SpanAndTailOfByte ==
  (last.op # "none" /\ last.err = "EXIP_OK") =>
    \A p \in 0..(8 * bufLen - 1) :
      /\ p < StartPos => BufBit(buf, p) = BufBit(last.start.buf, p)
      /\ p >= StartPos + last.n =>
           BufBit(buf, p) =
             IF /\ last.op = "writeNBits" /\ last.n >= 1
                /\ p \div 8 = (StartPos + last.n - 1) \div 8
             THEN 0
             ELSE BufBit(last.start.buf, p)

\* C7 witness: writeNBits inside a byte that held set bits before and after
\* the span: the bits before are kept, the bits after are cleared
C7_Witness ==
  /\ WroteNBits /\ last.n >= 1 /\ last.start.bp > 0
  /\ last.start.bp + last.n < 8
  /\ BufBit(last.start.buf, StartPos - 1) = 1 /\ BufBit(buf, StartPos - 1) = 1
  /\ BufBit(last.start.buf, StartPos + last.n) = 1
  /\ BufBit(buf, StartPos + last.n) = 0

\* C8: after any sequence of successful writeNextBit / writeNBits calls every
\* bit of the partially written byte at or after the bit position is zero.
C8_TrailingBitsZero ==
  (last.okSoFar /\ bitPointer > 0 /\ bufferIndx < bufLen) =>
     buf[bufferIndx] % Pow2(8 - bitPointer) = 0

\* C9: writeNBits(0, v) reports success and leaves the buffer, the position
\* and the flush sink unchanged, in every stream state.
C9_ZeroBitsNoOp ==
  (last.op = "writeNBits" /\ last.n = 0) =>
     (last.err = "EXIP_OK" /\ Untouched)

(***************************************************************************)
(* Properties of the header decoder.                                       *)
(***************************************************************************)
\* number of bytes of the input taken by the cookie
CookieLen(bytes) ==
  IF Len(bytes) >= 4 /\ bytes[1] = 36 /\ bytes[2] = 69 /\ bytes[3] = 88 /\ bytes[4] = 73
  THEN 4
  ELSE 0

\* the input has two bits after the optional cookie, and they are not 1, 0
BadDistinguishingBits(bytes) ==
  LET p == 8 * CookieLen(bytes)
  IN  /\ 8 * Len(bytes) >= p + 2
      /\ ~(BitAtPos(bytes, p) = 1 /\ BitAtPos(bytes, p + 1) = 0)

\* C11: a decodeHeader call on an input whose two bits after the optional
\* cookie are not 10 returns InvalidExiHeader; didHeader() is false before
\* any call, and after a call it is true exactly when that call or an
\* earlier one returned success.
C11_InvalidHeaderAndDidHeader ==
  /\ ~hlast.called => ~didHeader
  /\ hlast.called =>
       /\ BadDistinguishingBits(hlast.bytes) => hlast.err = "InvalidExiHeader"
       /\ didHeader <=> (hlast.err = "Ok" \/ hlast.pre.DidHeader)

\* a decode that fails on the bits after the cookie, on a decoder whose
\* constructor decoded a header
C11_Witness ==
  /\ pc = "decoded"
  /\ hlast.pre.DidHeader
  /\ CookieLen(hlast.bytes) = 4
  /\ BadDistinguishingBits(hlast.bytes)
  /\ hlast.err = "InvalidExiHeader"
  /\ didHeader

\* the k-th 4-bit group of the version field of an input whose
\* distinguishing bits are at bit position p
VersionGroup(bytes, p, k) ==
  LET q == p + 7 + 4 * (k - 1)
  IN  8 * BitAtPos(bytes, q) + 4 * BitAtPos(bytes, q + 1)
        + 2 * BitAtPos(bytes, q + 2) + BitAtPos(bytes, q + 3)

\* number of whole version groups the input holds
GroupsIn(bytes, p) ==
  IF 8 * Len(bytes) >= p + 7 THEN (8 * Len(bytes) - p - 7) \div 4 ELSE 0

\* C12: a decodeHeader call records HasCookie = true and reads the
\* distinguishing bits after four bytes exactly when the input starts with
\* "$EXI", otherwise it records HasCookie = false and reads them at the
\* start; a decoded version is 1 plus the sum of the 4-bit groups up to and
\* including the first group below 15, and the header ends after that
\* group; "$EXI" followed by bits 10 0 0000 0000 decodes to HasCookie,
\* no preview, version 1, no options, the body starting at the next bit.
C12_CookieAndVersion ==
  hlast.called =>
    /\ Header.HasCookie <=> (CookieLen(hlast.bytes) = 4)
    /\ hlast.distAt = 8 * CookieLen(hlast.bytes)
    /\ hlast.err = "Ok" =>
         \E k \in 1..GroupsIn(hlast.bytes, hlast.distAt) :
           /\ \A j \in 1..(k - 1) : VersionGroup(hlast.bytes, hlast.distAt, j) = 15
           /\ VersionGroup(hlast.bytes, hlast.distAt, k) < 15
           /\ Header.ExiVersion =
                1 + 15 * (k - 1) + VersionGroup(hlast.bytes, hlast.distAt, k)
           /\ hlast.pos = hlast.distAt + 7 + 4 * k
    /\ hlast.bytes = <<36, 69, 88, 73, 128, 0>> =>
         /\ hlast.err = "Ok"
         /\ Header.HasCookie /\ ~Header.IsPreviewVersion
         /\ Header.ExiVersion = 1 /\ ~Header.Opts.present
         /\ hlast.pos = 32 + 11

\* the cookie and a two-group version decoded on a decoder whose earlier
\* input had no cookie
C12_Witness ==
  /\ pc = "decoded"
  /\ ~hlast.pre.Header.HasCookie
  /\ hlast.err = "Ok"
  /\ Header.HasCookie
  /\ hlast.distAt = 32
  /\ Header.ExiVersion = 18

\* an options document combining options that exclude each other
MutuallyExclusive(doc) ==
  \/ /\ \E a \in {"byte", "pre-compress"} : a \in doc
     /\ "compression" \in doc
  \/ /\ "strict" \in doc
     /\ \E e \in {"dtd", "prefixes", "comments", "pis", "selfContained"} : e \in doc
  \/ /\ "selfContained" \in doc
     /\ \E e \in {"compression", "pre-compress", "strict"} : e \in doc

\* C13: decoding an options document that holds alignment with compression,
\* strict with dtd, prefixes, comments, pis or selfContained, or
\* selfContained with compression, pre-compression or strict returns
\* HeaderOptionsMismatch and leaves Opts as it was; Opts never holds such
\* a combination.
C13_OptionsMismatch ==
  /\ (hlast.called /\ MutuallyExclusive(hlast.doc)) =>
       /\ hlast.err = "HeaderOptionsMismatch"
       /\ Header.Opts = hlast.pre.Header.Opts
       /\ Flags.DidHeader = hlast.pre.DidHeader
  /\ Header.Opts.present => ~MutuallyExclusive(Header.Opts.doc)

\* selfContained with pre-compression refused by a decoder that holds the
\* options of an earlier header
C13_Witness ==
  /\ pc = "decoded"
  /\ hlast.doc = {"selfContained", "pre-compress"}
  /\ hlast.err = "HeaderOptionsMismatch"
  /\ hlast.pre.Header.Opts.present
  /\ Header.Opts = [present |-> TRUE, doc |-> {"strict", "lexicalValues"}]

(***************************************************************************)
(* Properties of the string table.                                         *)
(***************************************************************************)
\* C14: once the table is set up, after any sequence of addURI, addPrefix,
\* addLocalName and addValue calls the URI, prefix and local-name
\* partitions hold the same number of per-URI entries, and the partition
\* check of the accessors holds.
C14_PartitionsInSync ==
  tbl.DidSetup =>
    /\ Len(tbl.URIMap) = Len(tbl.PrefixMap)
    /\ Len(tbl.PrefixMap) = Len(tbl.LNMap)
    /\ assertPartitionsInSync(tbl)

\* a URI, a local name of it and a prefix of the empty URI have been added
C14_Witness ==
  /\ tbl.DidSetup
  /\ sops = 3
  /\ Len(tbl.URIMap) = 4
  /\ Len(tbl.LNMap[4]) = 1
  /\ Len(tbl.PrefixMap[1]) = 2

\* the names of the URI partition, by compact ID
URINames(t) == [i \in 1..Len(t.URIMap) |-> t.URIMap[i].Name]

\* C15: setup of a schema-less table leaves exactly the URIs 0 (empty),
\* 1 (XML namespace) and 2 (XSI namespace), and the first addURI returns
\* compact ID 3; setup with a schema leaves four URIs, ID 3 being the XSD
\* namespace, and the first addURI returns compact ID 4.
C15_InitialURIs ==
  LET schemaLess == <<"", "http://www.w3.org/XML/1998/namespace",
                      "http://www.w3.org/2001/XMLSchema-instance">>
      withSchema == schemaLess \o <<"http://www.w3.org/2001/XMLSchema">>
      initial    == IF sopts.SchemaID = <<>> THEN schemaLess ELSE withSchema
  IN  /\ slast.op = "setup" => URINames(tbl) = initial
      /\ (slast.op = "addURI" /\ URINames(slast.pre) = initial) =>
           /\ slast.res.num = Len(initial)
           /\ Len(tbl.URIMap) = Len(initial) + 1
           /\ tbl.URIMap[Len(initial) + 1].Name = slast.str

\* the first addURI on a table set up with a schema
C15_Witness ==
  /\ sopts.SchemaID # <<>>
  /\ slast.op = "addURI"
  /\ Len(slast.pre.URIMap) = 4
  /\ slast.pre.URIMap[4].Name = "http://www.w3.org/2001/XMLSchema"
  /\ slast.res.num = 4

\* ceil(log2(n + 1)): the least k with 2^k >= n + 1
MinBits(n) ==
  CHOOSE k \in 0..16 : Pow2(k) >= n + 1 /\ \A j \in 0..(k - 1) : Pow2(j) < n + 1

\* C16: every bit-width accessor returns ceil(log2(n + 1)) for the current
\* number n of entries of its partition: bits() for the local values of a
\* local name, getLocalNameLog(u) for the local names of URI u, getURILog()
\* for the URIs.
C16_BitWidths ==
  slast.res.kind = "ok" =>
    /\ slast.op = "bits" =>
         slast.res.num =
           MinBits(Len(tbl.LNMap[slast.URI + 1][slast.LocalID + 1].LocalValues))
    /\ slast.op = "getLocalNameLog" =>
         slast.res.num = MinBits(Len(tbl.LNMap[slast.URI + 1]))
    /\ slast.op = "getURILog" => slast.res.num = MinBits(Len(tbl.URIMap))

\* the value getURILog() returns on table t
uriLog(t) == (CHOOSE r \in getURILog(t) : TRUE).num

\* the value getLocalNameLog(u) returns on table t, u a URI of t
localNameLog(t, u) == (CHOOSE r \in getLocalNameLog(t, u) : TRUE).num

\* C17: no string table operation decreases the value returned by
\* getURILog(), nor, for any URI u of the table, the value returned by
\* getLocalNameLog(u).
C17_LogsMonotone ==
  [][/\ uriLog(tbl') >= uriLog(tbl)
     /\ \A u \in 0..(Len(tbl.URIMap) - 1) :
          localNameLog(tbl', u) >= localNameLog(tbl, u)]_vars

\* both widths have grown: a fourth URI was added, then a second local
\* name to it
C17_Witness ==
  /\ slast.op = "addLocalName"
  /\ slast.URI = 3
  /\ sopts.SchemaID = <<>>
  /\ uriLog(tbl) = 3
  /\ localNameLog(slast.pre, 3) = 0
  /\ localNameLog(tbl, 3) = 1

\* the local-value list of local name l of URI u in table t
LocalValuesOf(t, u, l) == t.LNMap[u + 1][l + 1].LocalValues

C19_GlobalWraps ==
  sopts.ValuePartitionCapacity # <<>> =>
    LET c == sopts.ValuePartitionCapacity[1]
    IN  /\ Len(tbl.GValueMap) <= c
        /\ (slast.op \in {"addValue", "addValueLocal"}
              /\ Len(slast.pre.GValueMap) = c) =>
             tbl.GValueMap =
               [slast.pre.GValueMap EXCEPT
                  ![(slast.pre.GValueCount.n % c) + 1] = slast.str]

\* the last call is an accessor called with an identifier out of range
OutOfRangeGet ==
  \/ /\ slast.op \in {"getURI", "getLocalNameLog", "getLocalName"}
     /\ slast.URI >= Len(tbl.URIMap)
  \/ /\ slast.op = "getLocalName"
     /\ slast.URI < Len(tbl.URIMap)
     /\ slast.LocalID >= Len(tbl.LNMap[slast.URI + 1])

\* C20: getURI, getLocalNameLog and getLocalName called with a URI that is
\* not below the number of URIs, and getLocalName called with a LocalID
\* that is not below the number of local names of its URI, fail with the
\* error InconsistentProcState and return no string.
C20_OutOfRangeGetFails ==
  OutOfRangeGet => slast.res.kind = "InconsistentProcState"

\* C21: the string value encoding is uniquely decodable from its first
\* varint, for every string and every table state: strings the encoder
\* sends down different paths have different length prefixes, and decoding
\* the encoding of a string yields that string and no other.
C21_PrefixDeterminesBranch ==
  /\ \A q1, q2 \in DOMAIN vtab.Local : \A s1, s2 \in ValueStrings :
       encodeString(vtab, q1, s1).prefix = encodeString(vtab, q2, s2).prefix
         => encodeString(vtab, q1, s1).branch = encodeString(vtab, q2, s2).branch
  /\ vlast.op = "encode" => vlast.decoded = {vlast.str}

\* the elements open after the first n events, the innermost last, as the
\* events themselves tell: a start tag opens, an end tag closes
RECURSIVE OpenAfter(_)
OpenAfter(n) ==
  IF n = 0 THEN <<>>
  ELSE LET open == OpenAfter(n - 1)
       IN CASE events[n].kind = "start_element" -> Append(open, events[n].elem)
            [] events[n].kind = "end_element" ->
                 SubSeq(open, 1, Len(open) - 1)
            [] OTHER -> open

\* C22: every event sequence delivered is well nested: start_document is
\* the first event and end_document the last, an end_element closes the
\* most recently opened element still open, end_document is delivered only
\* when no element is open, and the cursor of the handler, which descends
\* on start_element and goes to the parent on end_element, is on the
\* innermost open element throughout and back on the document node at
\* end_document.
C22_WellNested ==
  /\ \A i \in 1..Len(events) :
       /\ (events[i].kind = "start_document") <=> (i = 1)
       /\ events[i].kind = "end_document"
            => i = Len(events) /\ OpenAfter(i - 1) = <<>>
       /\ events[i].kind = "end_element"
            => /\ OpenAfter(i - 1) # <<>>
               /\ events[i].elem = OpenAfter(i - 1)[Len(OpenAfter(i - 1))]
  /\ dres = "ParsingComplete"
       => events # <<>> /\ events[Len(events)].kind = "end_document"
  /\ events # <<>>
       => LET open == OpenAfter(Len(events))
          IN builder.node = IF open = <<>> THEN 1 ELSE open[Len(open)] + 1
  /\ (events # <<>> /\ events[Len(events)].kind = "end_document")
       => TypeOfNode(builder) = "node_document"

\* a document with an element inside an element has been delivered to its end
C22_Witness ==
  /\ dres = "ParsingComplete"
  /\ \E i \in 1..Len(events) :
       events[i].kind = "end_element" /\ Len(OpenAfter(i - 1)) = 2
  /\ builder.node = 1

\* the attributes of element e as the first n events tell: an attribute
\* event adds one, whose value is the string of the event after it, and a
\* namespace declaration adds xmlns or xmlns:prefix
RECURSIVE AttrsAfter(_, _)
AttrsAfter(e, n) ==
  IF n = 0 THEN <<>>
  ELSE LET ev == events[n]
           attrs == AttrsAfter(e, n - 1)
       IN IF ev.elem # e THEN attrs
          ELSE CASE ev.kind = "attribute" ->
                      Append(attrs,
                        [name |-> <<ev.name.localName>>,
                         value |-> IF n < Len(events) THEN events[n + 1].str
                                   ELSE ""])
                 [] ev.kind = "namespace_declaration" ->
                      Append(attrs,
                        [name |-> IF ev.name.prefix = "" THEN <<"xmlns">>
                                  ELSE <<"xmlns", ev.name.prefix>>,
                         value |-> ev.name.uri])
                 [] OTHER -> attrs

OwnPrefixDeclarations ==
  {i \in 1..Len(events) :
     /\ events[i].kind = "namespace_declaration"
     /\ events[i].isLocal /\ events[i].name.prefix # ""}

\* C24: for an element that declares its own namespace prefix,
\* namespace_declaration(uri, prefix, is_local = true) is delivered before
\* the start_element event of that element.
C24_DeclarationBeforeStart ==
  \A i \in OwnPrefixDeclarations :
    ~\E j \in 1..(i - 1) :
       events[j].kind = "start_element" /\ events[j].elem = events[i].elem

\* C24, amended: the declaration of an element's own prefix is delivered
\* after the start_element event of that element and before any child,
\* text or end tag of it, while that element is the current node of the
\* handler, which puts the prefix in front of the element's name.
C24_DeclarationAfterStart ==
  \A i \in OwnPrefixDeclarations :
    /\ \E j \in 1..(i - 1) :
         /\ events[j].kind = "start_element" /\ events[j].elem = events[i].elem
         /\ events[j].name.localName # ""
         /\ \A k \in (j + 1)..(i - 1) :
              /\ events[k].elem = events[i].elem
              /\ events[k].kind \in
                   {"namespace_declaration", "attribute", "string_data"}
    /\ OpenAfter(i - 1) # <<>>
    /\ OpenAfter(i - 1)[Len(OpenAfter(i - 1))] = events[i].elem
    /\ i = Len(events) => builder.node = events[i].elem + 1
    /\ \A j \in 1..(i - 1) :
         (events[j].kind = "start_element" /\ events[j].elem = events[i].elem)
           => builder.nodes[events[i].elem + 1].name
                = <<events[i].name.prefix, events[j].name.localName>>

\* <p:a xmlns:p="urn:x"/>: the element has been started under the name a
\* and the declaration of p has renamed it
C24_Witness ==
  /\ Len(events) = 3
  /\ events[2].kind = "start_element" /\ events[2].name.uri = "urn:x"
  /\ events[3].kind = "namespace_declaration" /\ events[3].isLocal
  /\ builder.nodes[2].name = <<"p", "a">>
  /\ builder.nodes[2].attrs = <<[name |-> <<"xmlns", "p">>, value |-> "urn:x"]>>

\* C25: when a callback returns HandlerStop no further event is delivered,
\* the decoder returns HandlerStop, and the stream position stays at the
\* point reached: the productions read are those of the events delivered.
C25_HandlerStop ==
  LET n == Len(events)
  IN /\ \A i \in 1..(n - 1) : events[i].ret = "Ok"
     /\ dres = "HandlerStop" <=> (n > 0 /\ events[n].ret = "HandlerStop")
     /\ dres = "HandlerStop"
          => (builder.attr # <<>> <=> events[n].kind = "attribute")
     /\ dpos = Cardinality({i \in 1..n :
                 events[i].kind = "string_data"
                   => (i > 1 /\ events[i - 1].kind # "attribute")})

\* the callback given the value of an attribute has returned HandlerStop
C25_Witness ==
  /\ dres = "HandlerStop"
  /\ Len(events) >= 4
  /\ events[Len(events)].kind = "string_data"
  /\ events[Len(events) - 1].kind = "attribute"
  /\ dpos = Len(events) - 1

\* C26: for the same input event sequence the string-table state of the
\* encoder, partition contents and bit widths, is identical to that of the
\* decoder at every event boundary.
C26_LockStep == TableState(EncodeStringTable) = TableState(tbl)

\* C27: decoding the encoding of a document delivers an equivalent event
\* sequence: every attribute value and text delivered is the one the
\* document has at that place.
C27_RoundTrip ==
  (events # <<>> /\ events[Len(events)].kind = "string_data")
    => CodePoints[events[Len(events)].str] = vlast.str

\* the enumerators of the sixteen kinds Ok, NotImplemented, Unexpected,
\* OutOfBoundBuffer, NullReference, MemoryAllocationError, InvalidExiHeader,
\* InconsistentProcState, InvalidExiInput, BufferEndReached,
\* ParsingComplete, InvalidExiConfiguration, NoPrefixesPreservedXmlSchema,
\* InvalidStringOperation, HeaderOptionsMismatch and HandlerStop
SixteenKinds ==
  {"EXIP_OK", "EXIP_NOT_IMPLEMENTED_YET", "EXIP_UNEXPECTED_ERROR",
   "EXIP_OUT_OF_BOUND_BUFFER", "EXIP_NULL_POINTER_REF",
   "EXIP_MEMORY_ALLOCATION_ERROR", "EXIP_INVALID_EXI_HEADER",
   "EXIP_INCONSISTENT_PROC_STATE", "EXIP_INVALID_EXI_INPUT",
   "EXIP_BUFFER_END_REACHED", "EXIP_PARSING_COMPLETE",
   "EXIP_INVALID_EXIP_CONFIGURATION", "EXIP_NO_PREFIXES_PRESERVED_XML_SCHEMA",
   "EXIP_INVALID_STRING_OPERATION", "EXIP_HEADER_OPTIONS_MISMATCH",
   "EXIP_HANDLER_STOP"}

\* the codes the enumeration defines
DefinedCodes == {errorCode[i] : i \in DOMAIN errorCode}

\* C28: the set of status codes is closed: every code defined, and every
\* code a call returns, is one of the sixteen kinds.
C28_SixteenKinds ==
  /\ DefinedCodes \subseteq SixteenKinds
  /\ last.err \in SixteenKinds

\* C28, amended: the set of status codes is closed over seventeen kinds,
\* the sixteen and HashTableError: the enumeration defines exactly these,
\* with distinct values, and every code a call returns is one of them.
C28_SeventeenKinds ==
  /\ DefinedCodes = SixteenKinds \cup {"EXIP_HASH_TABLE_ERROR"}
  /\ Cardinality(DefinedCodes) = Len(errorCode)
  /\ last.err \in DefinedCodes

\* a write has returned a code other than EXIP_OK
C28_Witness == last.op # "none" /\ last.err = "EXIP_BUFFER_END_REACHED"

\* C29: bytes() returns 0 for a local name without local values and
\* otherwise ceil(bits() / 8), the least number of whole bytes that hold a
\* compact ID of bits() bits, for every number of local values.
C29_BytesOfBits ==
  fcall.fn = "bytes"
    => LET n == fcall.x
           width == CeilLog2(n + 1)
       IN fcall.res = IF n = 0 THEN 0 ELSE (width + 7) \div 8

\* x lies within the value range of the type T: -2^(n-1) .. 2^(n-1) - 1
\* for ibit<n>, 0 .. 2^n - 1 for ubit<n>
InRangeOf(T, x) ==
  IF T.signed THEN 0 - Pow2(T.bits - 1) <= x /\ x <= Pow2(T.bits - 1) - 1
  ELSE 0 <= x /\ x <= Pow2(T.bits) - 1

C32_StdNeverClosed ==
  \A i \in 1..NStreams :
    LET closes == fdstream.s[i].closes
    IN /\ \A k \in DOMAIN closes : ~(closes[k] \in 0..STDERR_FILENO)
       /\ \A k, l \in DOMAIN closes :
            (closes[k] = closes[l] /\ closes[k] >= 0) => k = l

\* C33: after any sequence of getStat calls StatCalls holds an entry for
\* a path only if a lookup of that path succeeded with the requested kind
\* and the path is not a directory or is absolute; a failed lookup adds
\* and changes no entry.
C33_CacheOnlySuccess ==
  /\ \A P \in StatPaths :
       statCache.StatCalls[P] # NoStatus
         => /\ \E g \in statCache.succeeded :
                 /\ g.Path = P
                 /\ g.Status = statCache.StatCalls[P]
                 /\ g.Status.isDirectory = ~g.isFile
            /\ ~statCache.StatCalls[P].isDirectory \/ is_absolute(P)
  /\ ~(statCache.last.err \in {"", "none"})
       => statCache.StatCalls = statCache.last.pre

\* a lookup of a directory by a relative path has succeeded and left the
\* cache alone, after the lookup of a file was cached and one of its
\* lookups failed
C33_Witness ==
  /\ statCache.StatCalls[<<"f">>] # NoStatus
  /\ statCache.last.err = "" /\ ~is_absolute(statCache.last.Path)
  /\ ~statCache.last.isFile
  /\ statCache.StatCalls[statCache.last.Path] = NoStatus

\* n successive writeNextBit calls from byte index idx and bit pointer bp
\* all succeed on a stream without a flush sink
RECURSIVE NextBitsSucceed(_, _, _)
NextBitsSucceed(idx, bp, n) ==
  IF n = 0 THEN TRUE
  ELSE IF bufLen <= idx THEN FALSE
  ELSE NextBitsSucceed(idx + ((bp + 1) \div 8), (bp + 1) % 8, n - 1)

\* C34: with no flush sink writeNBits(n, v) fails with BufferEndReached
\* exactly when fewer than n bits of room remain between the position and
\* the end of the buffer, that is when n successive writeNextBit calls
\* from the same state would not all succeed.
C34_FailsOnlyWithoutRoom ==
  (last.op = "writeNBits" /\ ~hasSink) =>
     /\ last.err = "EXIP_BUFFER_END_REACHED"
          <=> ~NextBitsSucceed(last.pre.idx, last.pre.bp, last.n)
     /\ last.err = "EXIP_BUFFER_END_REACHED"
          <=> 8 * (bufLen - last.pre.idx) - last.pre.bp < last.n

\* a is an initial part of b
IsPrefix(a, b) == Len(a) <= Len(b) /\ a = SubSeq(b, 1, Len(a))

\* C35: across any sequence of writeNextBit calls on a stream with a
\* flush sink, failed and retried calls included, the bytes the sink has
\* received are the buffer fills of the writer in order, none twice and
\* none skipped: all of them once the buffer is no longer full.
C35_SinkReceivesFills ==
  /\ IsPrefix(sink, fills)
  /\ bufferIndx < bufLen => sink = fills

\* C36: for any sequence of write(char), write(ptr, size) and flush on a
\* raw_ostream of any buffer size >= 1 or unbuffered, the bytes handed to
\* write_impl in call order followed by the bytes held in the buffer are
\* all the bytes written so far, none lost, doubled or out of order, and
\* OutBufStart <= OutBufCur <= OutBufEnd.
C36_NothingLost ==
  /\ ros.out \o ros.buf = ros.written
  /\ 0 <= Len(ros.buf) /\ Len(ros.buf) <= ros.size

\* a write longer than the buffer came while the buffer held bytes: part
\* of it went to write_impl with them, the rest stays in the buffer
C36_Witness ==
  /\ ros.Start /\ ros.size > 1
  /\ Len(ros.out) >= 2 * ros.size
  /\ ros.buf # <<>>
  /\ Len(ros.written) = MaxBytes

\* C37: when ParseXMLFromMemoryBuffer calls on different buffers run at
\* the same time, xml::use_exceptions_anyway is true for the whole of
\* each call, so that a parse error in either gives an error value and
\* does not end the process, and once all calls have returned the flag
\* has the value it had before the first.
C37_FlagHeldAndRestored ==
  /\ \A i \in 1..NThreads :
       /\ xml.t[i].at = "parsing" => xml.use_exceptions_anyway
       /\ ~xml.t[i].unset
       /\ xml.t[i].result # "exit"
  /\ (\A i \in 1..NThreads : xml.t[i].at = "returned")
       => ~xml.use_exceptions_anyway

====
